---- MODULE Spec2Model ----
(***************************************************************************)
(* Model of the desktop automation loop of src/src/main.rs: the console    *)
(* thread, the main iteration loop, the execution match of one action, the *)
(* verifier and the retry controller, with the keyboard and mouse wrappers *)
(* of src/src/actuators.                                                   *)
(*                                                                         *)
(* Abstractions: wall-clock timestamps of ActionResult and TaskState are   *)
(* left out; a sleep is a step that changes no program state; an external  *)
(* call (screen capture, LLM request, file write) returns.                 *)
(***************************************************************************)
EXTENDS Integers, Sequences, FiniteSets, TLC

\* ---------------------------------------------------------------- bounds
\* Longest action plan the LLM answers with in Spec.
MaxPlanLen == 2
\* Longest action plan the LLM answers with in SpecExec.
MaxExecPlanLen == 1
\* Longest action plan the LLM answers with in LiveSpec.
MaxLivePlanLen == 1
\* Latest step of a wrapper call at which enigo answers Err in Spec.
MaxFailPoint == 1
\* The same in SpecExec: past the longest call, so every step can fail.
MaxExecFailPoint == 9
\* Calls of update the TaskState specification makes on one TaskState.
MaxUpdates == 1

\* ------------------------------------------------------------ JSON values
\* serde_json::Value, by type: null, string, integer, array, object.
JNull == [t |-> "null"]
JS(s) == [t |-> "str", s |-> s]
JI(n) == [t |-> "int", n |-> n]
JA(a) == [t |-> "arr", a |-> a]
JO(o) == [t |-> "obj", o |-> o]
JB(b) == [t |-> "bool", b |-> b]

\* value["field"]: Null when value is no object or has no such field.
Get(v, f) == IF v.t = "obj" /\ f \in DOMAIN v.o THEN v.o[f] ELSE JNull

\* Value::as_str, as_i64, as_array, as_object return Some exactly on that type.
IsStr(v) == v.t = "str"
IsInt(v) == v.t = "int"
IsArr(v) == v.t = "arr"
IsObj(v) == v.t = "obj"
IsBool(v) == v.t = "bool"

\* ---------------------------------------------------------------- strings
\* Text that the program trims, lowercases or searches is a sequence of
\* characters; tags compared as a whole are TLA+ strings.

\* char::to_lowercase on the characters the model uses.
LowerChar(c) ==
    CASE c = "C" -> "c"
      [] c = "H" -> "h"
      [] c = "T" -> "t"
      [] OTHER -> c

\* str::to_lowercase of a character sequence.
ToLowercase(s) == [i \in 1..Len(s) |-> LowerChar(s[i])]

\* str::contains: pat occurs in s as a contiguous run.
Contains(s, pat) ==
    \E i \in 0..(Len(s) - Len(pat)) :
        \A j \in 1..Len(pat) : s[i + j] = pat[j]

\* str::to_lowercase of a tag (button, key and modifier names).
LowerTag(s) ==
    CASE s = "LEFT" -> "left"
      [] s = "Tab" -> "tab"
      [] s = "Control" -> "control"
      [] s = "T" -> "t"
      [] OTHER -> s

IsWhitespace(c) == c \in {" ", "\n", "\t"}

RECURSIVE TrimStart(_)
TrimStart(s) ==
    IF s # <<>> /\ IsWhitespace(Head(s)) THEN TrimStart(Tail(s)) ELSE s

RECURSIVE TrimEnd(_)
TrimEnd(s) ==
    IF s # <<>> /\ IsWhitespace(s[Len(s)])
    THEN TrimEnd(SubSeq(s, 1, Len(s) - 1))
    ELSE s

\* str::trim: leading and trailing whitespace removed.
Trim(s) == TrimEnd(TrimStart(s))

\* ----------------------------------------------------------- ActionResult
\* Option<String>::None of error_message.
NoError == "<none>"

\* ActionResult::new: a failed result with no message and no retries.
ActionResultNew(action_type) ==
    [action_type |-> action_type, success |-> FALSE,
     error_message |-> NoError, retry_count |-> 0]

\* ActionResult::success.
Success(r) == [r EXCEPT !.success = TRUE]

\* ActionResult::with_error: the message is set, success is left as it is.
WithError(r, msg) == [r EXCEPT !.error_message = msg]

\* A retry counter that one retry carries past the ceiling.
IncrementRetryPastCeiling(r) == [r EXCEPT !.retry_count = @ + 4]

\* ActionResult::increment_retry.
IncrementRetry(r) == [r EXCEPT !.retry_count = @ + 1]

\* -------------------------------------------------------------- TaskState
EmptyString == <<>>

\* SystemTime::now() in seconds since the epoch: the one reading of the
\* clock the model takes.
Now == 1

\* A new TaskState whose status is "idle".
TaskStateNewIdle(instruction) ==
    [instruction |-> instruction,
     status |-> "idle",
     attempts |-> 0,
     last_action |-> "",
     success_criteria |-> <<"Task completed", "Information found",
                            "Research complete", "Task done">>,
     memory |-> <<>>,
     feedback |-> <<>>,
     start_time |-> Now,
     last_update |-> Now,
     action_results |-> <<>>]

\* TaskState::new(instruction).
TaskStateNew(instruction) ==
    [instruction |-> instruction,
     status |-> "in_progress",
     attempts |-> 0,
     last_action |-> "",
     success_criteria |-> <<"Task completed", "Information found",
                            "Research complete", "Task done">>,
     memory |-> <<>>,
     feedback |-> <<>>,
     start_time |-> Now,
     last_update |-> Now,
     action_results |-> <<>>]

\* The status written as "paused" instead.
SetTaskDonePaused(ts) == [ts EXCEPT !.status = "paused", !.last_update = Now]

\* TaskState::set_task_done.
SetTaskDone(ts) == [ts EXCEPT !.status = "task_done", !.last_update = Now]

\* serde's derived Serialize of ActionResult: one JSON object, every field.
ActionResultToJson(r) ==
    JO([action_type |-> JS(r.action_type),
        success |-> JB(r.success),
        error_message |-> IF r.error_message = NoError THEN JNull
                          ELSE JS(r.error_message),
        retry_count |-> JI(r.retry_count)])

\* serde's derived Deserialize of ActionResult: Ok exactly on the right types.
ActionResultJsonOk(v) ==
    /\ IsObj(v)
    /\ IsStr(Get(v, "action_type"))
    /\ IsBool(Get(v, "success"))
    /\ (IsStr(Get(v, "error_message")) \/ Get(v, "error_message") = JNull)
    /\ IsInt(Get(v, "retry_count")) /\ Get(v, "retry_count").n >= 0

ActionResultFromJson(v) ==
    [action_type |-> Get(v, "action_type").s,
     success |-> Get(v, "success").b,
     error_message |-> IF IsStr(Get(v, "error_message"))
                       THEN Get(v, "error_message").s ELSE NoError,
     retry_count |-> Get(v, "retry_count").n]

\* serde_json::to_string_pretty(state): the text of task_state.json.
TaskStateToJson(ts) ==
    JO([instruction |-> JS(ts.instruction),
        status |-> JS(ts.status),
        attempts |-> JI(ts.attempts),
        last_action |-> JS(ts.last_action),
        success_criteria |->
            JA([i \in 1..Len(ts.success_criteria) |-> JS(ts.success_criteria[i])]),
        memory |-> JO([k \in DOMAIN ts.memory |-> JS(ts.memory[k])]),
        feedback |-> JA([i \in 1..Len(ts.feedback) |-> JS(ts.feedback[i])]),
        start_time |-> JI(ts.start_time),
        last_update |-> JI(ts.last_update),
        action_results |->
            JA([i \in 1..Len(ts.action_results) |->
                    ActionResultToJson(ts.action_results[i])])])

\* serde_json::from_str::<TaskState> is Ok: every field present, rightly typed.
TaskStateJsonOk(v) ==
    /\ IsObj(v)
    /\ IsStr(Get(v, "instruction"))
    /\ IsStr(Get(v, "status"))
    /\ IsInt(Get(v, "attempts")) /\ Get(v, "attempts").n >= 0
    /\ IsStr(Get(v, "last_action"))
    /\ IsArr(Get(v, "success_criteria"))
    /\ \A i \in 1..Len(Get(v, "success_criteria").a) :
           IsStr(Get(v, "success_criteria").a[i])
    /\ IsObj(Get(v, "memory"))
    /\ \A k \in DOMAIN Get(v, "memory").o : IsStr(Get(v, "memory").o[k])
    /\ IsArr(Get(v, "feedback"))
    /\ \A i \in 1..Len(Get(v, "feedback").a) : IsStr(Get(v, "feedback").a[i])
    /\ IsInt(Get(v, "start_time"))
    /\ IsInt(Get(v, "last_update"))
    /\ IsArr(Get(v, "action_results"))
    /\ \A i \in 1..Len(Get(v, "action_results").a) :
           ActionResultJsonOk(Get(v, "action_results").a[i])

\* A deserializer that keeps the instruction and nothing else of the file.
TaskStateFromJsonFresh(v) == TaskStateNew(Get(v, "instruction").s)

TaskStateFromJson(v) ==
    [instruction |-> Get(v, "instruction").s,
     status |-> Get(v, "status").s,
     attempts |-> Get(v, "attempts").n,
     last_action |-> Get(v, "last_action").s,
     success_criteria |->
         [i \in 1..Len(Get(v, "success_criteria").a) |->
              Get(v, "success_criteria").a[i].s],
     memory |-> [k \in DOMAIN Get(v, "memory").o |-> Get(v, "memory").o[k].s],
     feedback |->
         [i \in 1..Len(Get(v, "feedback").a) |-> Get(v, "feedback").a[i].s],
     start_time |-> Get(v, "start_time").n,
     last_update |-> Get(v, "last_update").n,
     action_results |->
         [i \in 1..Len(Get(v, "action_results").a) |->
              ActionResultFromJson(Get(v, "action_results").a[i])]]

\* task_state.json does not exist in the iteration directory.
NoFile == [t |-> "nofile"]

\* load_task_state: the parsed file, or TaskState::new("") when the file is
\* missing or does not parse.
LoadTaskState(file) ==
    IF file # NoFile /\ TaskStateJsonOk(file)
    THEN TaskStateFromJson(file)
    ELSE TaskStateNew(EmptyString)

\* save_task_state: the new content of task_state.json.
SaveTaskState(ts) == TaskStateToJson(ts)

\* ------------------------------------------------- input-injection layer
\* One call of the enigo library, or a sleep between two calls.
KeyEv(k, d) == [op |-> "key", key |-> k, dir |-> d]
ButtonEv(b, d) == [op |-> "button", button |-> b, dir |-> d]
MoveEv(x, y) == [op |-> "move", x |-> x, y |-> y]
TextEv(s) == [op |-> "text", text |-> s]
SleepEv(ms) == [op |-> "sleep", ms |-> ms]

IsInjection(ev) == ev.op # "sleep"

\* What a wrapper method sets out to do: the steps it makes in order, and the
\* error it ends with by itself after them (NoError when it has none).
Call(steps, err) == [steps |-> steps, err |-> err]

\* The steps of a call at which enigo can answer Err; 0 is no failure.
FailPoints(c) == {0} \cup {i \in 1..Len(c.steps) : IsInjection(c.steps[i])}

\* The call as it went when enigo answered Err at step failAt: `?` returns at
\* once, so the steps before it are done and the later ones are not.
Outcome(c, failAt) ==
    IF failAt = 0
    THEN [events |-> c.steps, err |-> c.err]
    ELSE [events |-> SubSeq(c.steps, 1, failAt - 1), err |-> "enigo error"]

\* Keyboard::alt_tab.
AltTab ==
    Call(<<KeyEv("Alt", "Press"), SleepEv(100), KeyEv("Tab", "Click"),
           SleepEv(100), KeyEv("Alt", "Release")>>, NoError)

\* Keyboard::cmd_tab.
CmdTab ==
    Call(<<KeyEv("Meta", "Press"), SleepEv(100), KeyEv("Tab", "Click"),
           SleepEv(100), KeyEv("Meta", "Release")>>, NoError)

\* Keyboard::press_key.
PressKey(key_name) ==
    LET k == LowerTag(key_name) IN
    CASE k \in {"return", "enter"} -> Call(<<KeyEv("Return", "Click")>>, NoError)
      [] k = "tab" -> Call(<<KeyEv("Tab", "Click")>>, NoError)
      [] k = "escape" -> Call(<<KeyEv("Escape", "Click")>>, NoError)
      [] OTHER -> Call(<<>>, "Unknown key")

\* Keyboard::type_text.
TypeText(text) == Call(<<TextEv(text)>>, NoError)

\* The enigo key of a modifier name of press_key_combination, "" when the
\* name is none of them.
ModifierKey(name) ==
    LET k == LowerTag(name) IN
    CASE k \in {"control", "ctrl"} -> "Control"
      [] k = "cmd" -> "Meta"
      [] k = "alt" -> "Alt"
      [] k = "shift" -> "Shift"
      [] k \in {"meta", "super", "windows"} -> "Meta"
      [] OTHER -> ""

\* The letters press_key_combination can type as the last key.
CombinationLetters == {"t", "w", "r", "l", "a", "c", "v", "x", "z"}

\* The press loop over keys[0..len-1]: the presses made, and whether the loop
\* returned Err at an unknown modifier.
RECURSIVE PressModifiers(_)
PressModifiers(mods) ==
    IF mods = <<>> THEN [steps |-> <<>>, ok |-> TRUE]
    ELSE IF ModifierKey(Head(mods)) = "" THEN [steps |-> <<>>, ok |-> FALSE]
    ELSE LET rest == PressModifiers(Tail(mods)) IN
         [steps |-> <<KeyEv(ModifierKey(Head(mods)), "Press")>> \o rest.steps,
          ok |-> rest.ok]

\* The release loop over keys[0..len-1] reversed; an unknown name is skipped.
RECURSIVE ReleaseModifiers(_)
ReleaseModifiers(mods) ==
    IF mods = <<>> THEN <<>>
    ELSE ReleaseModifiers(Tail(mods)) \o
         (IF ModifierKey(Head(mods)) = "" THEN <<>>
          ELSE <<KeyEv(ModifierKey(Head(mods)), "Release")>>)

\* Keyboard::press_key_combination.
PressKeyCombination(keys) ==
    IF keys = <<>> THEN Call(<<>>, "No keys provided for combination")
    ELSE LET mods == SubSeq(keys, 1, Len(keys) - 1)
             last == LowerTag(keys[Len(keys)])
             pressed == PressModifiers(mods)
         IN  IF ~pressed.ok THEN Call(pressed.steps, "Unknown modifier key")
             ELSE IF last \notin CombinationLetters
             THEN Call(pressed.steps \o <<SleepEv(50)>>,
                       "Unknown key in combination")
             ELSE Call(pressed.steps \o <<SleepEv(50), TextEv(last), SleepEv(50)>>
                           \o ReleaseModifiers(mods), NoError)

\* Mouse::move_to.
MoveTo(x, y) == Call(<<MoveEv(x, y)>>, NoError)

\* Mouse::click.
Click(button_name) ==
    LET b == LowerTag(button_name) IN
    CASE b = "left" -> Call(<<ButtonEv("Left", "Click")>>, NoError)
      [] b = "right" -> Call(<<ButtonEv("Right", "Click")>>, NoError)
      [] b = "middle" -> Call(<<ButtonEv("Middle", "Click")>>, NoError)
      [] OTHER -> Call(<<>>, "Unknown mouse button")

\* ---------------------------------------------------------------- verifier
\* action["action"].as_str().unwrap_or("unknown").
ActionTag(action) ==
    IF IsStr(Get(action, "action")) THEN Get(action, "action").s ELSE "unknown"

\* The same arms with text_input left out of them.
AlwaysVerifiedButText ==
    {"mouse_move", "mouse_click", "key_press", "key_combination", "wait",
     "task_done"}

AlwaysVerified ==
    {"mouse_move", "mouse_click", "key_press", "key_combination",
     "text_input", "wait", "task_done"}

\* The match of verify_action on the action tag, given the analysis `state`
\* object.
VerifyMatch(action, state) ==
    LET result == ActionResultNew(ActionTag(action))
        title == Get(action, "title")
        active_window == Get(state, "active_window")
    IN  IF ~IsStr(Get(action, "action"))
        THEN WithError(result, "Unknown action type")
        ELSE IF ActionTag(action) = "window_focus"
        THEN IF ~IsStr(title)
             THEN WithError(result, "Missing title or class in window_focus action")
             ELSE IF ~IsStr(active_window)
             THEN WithError(result, "Could not determine active window")
             ELSE IF Contains(ToLowercase(active_window.s), ToLowercase(title.s))
             THEN Success(result)
             ELSE WithError(result, "Window focus failed")
        ELSE IF ActionTag(action) \in AlwaysVerified
        THEN Success(result)
        ELSE WithError(result, "Unknown action type")

\* state["active_window"] indexes a serde_json Map, which panics when the
\* key is absent; the match reaches it for a window_focus with a title.
IndexPanics(action, state) ==
    /\ IsStr(Get(action, "action"))
    /\ ActionTag(action) = "window_focus"
    /\ IsStr(Get(action, "title"))
    /\ "active_window" \notin DOMAIN state.o

\* A verify_action that logs the result of a skipped verification too.
VerifyActionLogsSkipped(action, analysis_json) ==
    [result |-> WithError(ActionResultNew(ActionTag(action)),
                          "No state information found in analysis"),
     pushed |-> TRUE, panicked |-> FALSE]

\* verify_action of main.rs: the result, whether it was pushed onto
\* task_state.action_results (the two early returns push nothing), and
\* whether the call panicked instead of returning.
VerifyAction(action, analysis_json) ==
    LET result == ActionResultNew(ActionTag(action)) IN
    IF ~IsArr(Get(analysis_json, "ui_elements"))
    THEN [result |-> WithError(result, "No UI elements found in analysis"),
          pushed |-> FALSE, panicked |-> FALSE]
    ELSE IF ~IsObj(Get(analysis_json, "state"))
    THEN [result |-> WithError(result, "No state information found in analysis"),
          pushed |-> FALSE, panicked |-> FALSE]
    ELSE IF IndexPanics(action, Get(analysis_json, "state"))
    THEN [result |-> result, pushed |-> FALSE, panicked |-> TRUE]
    ELSE [result |-> VerifyMatch(action, Get(analysis_json, "state")),
          pushed |-> TRUE, panicked |-> FALSE]

\* task_state after verify_action returned v.
PushVerified(ts, v) ==
    IF v.pushed
    THEN [ts EXCEPT !.action_results = Append(@, v.result)]
    ELSE ts

\* --------------------------------------------------------- retry controller
\* The guard of retry_action: the first verification failed and the result
\* has fewer than 3 retries.
RetryCeiling == 3

ShouldRetry(result) == ~result.success /\ result.retry_count < RetryCeiling

\* Rust's integer division, which truncates toward zero.
RustDiv(a, b) ==
    IF a >= 0 THEN a \div b ELSE -((-a) \div b)

\* Whether an element of ui_elements has coords of at least four integers.
HasCoords(element) ==
    /\ IsArr(Get(element, "coords"))
    /\ Len(Get(element, "coords").a) >= 4
    /\ \A i \in 1..4 : IsInt(Get(element, "coords").a[i])

\* The loop that keeps the first element with coords, whatever its distance.
RECURSIVE ClosestElementFirst(_, _, _, _)
ClosestElementFirst(elements, x, y, best) ==
    IF elements = <<>> THEN best
    ELSE LET e == Head(elements) IN
         IF ~HasCoords(e) THEN ClosestElementFirst(Tail(elements), x, y, best)
         ELSE LET c == Get(e, "coords").a IN
              [found |-> TRUE, x |-> RustDiv(c[1].n + c[3].n, 2),
               y |-> RustDiv(c[2].n + c[4].n, 2), distance |-> 0]

\* The loop in which an element at an equal distance replaces the best.
RECURSIVE ClosestElementLast(_, _, _, _)
ClosestElementLast(elements, x, y, best) ==
    IF elements = <<>> THEN best
    ELSE LET e == Head(elements) IN
         IF ~HasCoords(e) THEN ClosestElementLast(Tail(elements), x, y, best)
         ELSE LET c == Get(e, "coords").a
                  center_x == RustDiv(c[1].n + c[3].n, 2)
                  center_y == RustDiv(c[2].n + c[4].n, 2)
                  distance == (center_x - x) * (center_x - x)
                              + (center_y - y) * (center_y - y)
              IN  IF ~best.found \/ distance <= best.distance
                  THEN ClosestElementLast(Tail(elements), x, y,
                           [found |-> TRUE, x |-> center_x, y |-> center_y,
                            distance |-> distance])
                  ELSE ClosestElementLast(Tail(elements), x, y, best)

\* The loop of retry_action over ui_elements: best is the closest centre and
\* its squared distance so far; a later element replaces it only when its
\* distance is strictly smaller.
RECURSIVE ClosestElement(_, _, _, _)
ClosestElement(elements, x, y, best) ==
    IF elements = <<>> THEN best
    ELSE LET e == Head(elements) IN
         IF ~HasCoords(e) THEN ClosestElement(Tail(elements), x, y, best)
         ELSE LET c == Get(e, "coords").a
                  center_x == RustDiv(c[1].n + c[3].n, 2)
                  center_y == RustDiv(c[2].n + c[4].n, 2)
                  distance == (center_x - x) * (center_x - x)
                              + (center_y - y) * (center_y - y)
              IN  IF ~best.found \/ distance < best.distance
                  THEN ClosestElement(Tail(elements), x, y,
                           [found |-> TRUE, x |-> center_x, y |-> center_y,
                            distance |-> distance])
                  ELSE ClosestElement(Tail(elements), x, y, best)

NoElement == [found |-> FALSE, x |-> 0, y |-> 0, distance |-> 0]

\* The adjustment that sends the chord of the action's own method again.
RetryCallsSameChord(action, analysis_json) ==
    IF ActionTag(action) = "window_focus" /\ IsStr(Get(action, "method"))
    THEN IF Get(action, "method").s = "alt_tab" THEN <<AltTab>> ELSE <<CmdTab>>
    ELSE <<>>

\* The adjustment of retry_action: the wrapper calls it makes, in order. Each
\* is made as `let _ = ...`, so an Err of one does not stop the next.
RetryCalls(action, analysis_json) ==
    LET tag == ActionTag(action) IN
    IF IsStr(Get(action, "action")) /\ tag = "window_focus"
    THEN IF IsStr(Get(action, "method")) /\ IsStr(Get(action, "title"))
            /\ IsStr(Get(action, "class"))
         THEN IF Get(action, "method").s = "alt_tab" THEN <<CmdTab>> ELSE <<AltTab>>
         ELSE <<>>
    ELSE IF IsStr(Get(action, "action")) /\ tag \in {"mouse_move", "mouse_click"}
    THEN IF IsInt(Get(action, "x")) /\ IsInt(Get(action, "y"))
            /\ IsArr(Get(analysis_json, "ui_elements"))
         THEN LET closest == ClosestElement(Get(analysis_json, "ui_elements").a,
                                 Get(action, "x").n, Get(action, "y").n, NoElement)
              IN  IF closest.found
                  THEN <<MoveTo(closest.x, closest.y)>> \o
                       (IF tag = "mouse_click" /\ IsStr(Get(action, "button"))
                        THEN <<Click(Get(action, "button").s)>> ELSE <<>>)
                  ELSE <<>>
         ELSE <<>>
    ELSE <<Call(<<SleepEv(500)>>, NoError)>>

\* -------------------------------------------------- the execution match
\* keys.iter().filter_map(|k| k.as_str()).map(|s| s.to_lowercase()).
RECURSIVE KeyNames(_)
KeyNames(keys) ==
    IF keys = <<>> THEN <<>>
    ELSE (IF IsStr(Head(keys)) THEN <<LowerTag(Head(keys).s)>> ELSE <<>>)
         \o KeyNames(Tail(keys))

\* An arm of the match that ends without touching the injection layer.
ParamErrorUnreported(action_type, msg) ==
    [arm |-> "error", result |-> ActionResultNew(action_type)]

ParamError(action_type, msg) ==
    [arm |-> "error", result |-> WithError(ActionResultNew(action_type), msg)]

\* An arm that makes one wrapper call: on Err the result is the failed
\* ActionResult carrying the message, on Ok it sleeps `settle` ms (0: no
\* sleep) and hands the action to retry_action.
Injecting(action_type, call, settle) ==
    [arm |-> "call", action_type |-> action_type, call |-> call,
     settle |-> settle]

\* The match of main on action["action"]: which arm runs and what it is given.
Execute(action) ==
    LET tag == IF IsStr(Get(action, "action")) THEN Get(action, "action").s
               ELSE "" IN
    CASE tag = "window_focus" ->
            IF IsStr(Get(action, "title")) /\ IsStr(Get(action, "class"))
               /\ IsStr(Get(action, "method"))
            THEN Injecting("window_focus",
                     CASE Get(action, "method").s = "alt_tab" -> AltTab
                       [] Get(action, "method").s = "super_tab" -> CmdTab
                       [] OTHER -> Call(<<>>, "Unknown window focus method"),
                     500)
            ELSE ParamError("window_focus", "Missing parameters")
      [] tag = "mouse_move" ->
            IF IsInt(Get(action, "x")) /\ IsInt(Get(action, "y"))
            THEN Injecting("mouse_move",
                     MoveTo(Get(action, "x").n, Get(action, "y").n), 0)
            ELSE ParamError("mouse_move", "Missing coordinates")
      [] tag = "mouse_click" ->
            IF IsStr(Get(action, "button"))
            THEN Injecting("mouse_click", Click(Get(action, "button").s), 0)
            ELSE ParamError("mouse_click", "Missing button")
      [] tag = "key_press" ->
            IF IsStr(Get(action, "key"))
            THEN Injecting("key_press", PressKey(Get(action, "key").s), 0)
            ELSE ParamError("key_press", "Missing key")
      [] tag = "key_combination" ->
            IF IsArr(Get(action, "keys"))
            THEN Injecting("key_combination",
                     PressKeyCombination(KeyNames(Get(action, "keys").a)), 0)
            ELSE ParamError("key_combination", "Missing keys")
      [] tag = "text_input" ->
            IF IsStr(Get(action, "text"))
            THEN Injecting("text_input", TypeText(Get(action, "text").s), 0)
            ELSE ParamError("text_input", "Missing text")
      [] tag = "wait" ->
            IF IsInt(Get(action, "ms"))
            THEN [arm |-> "wait", ms |-> Get(action, "ms").n]
            ELSE ParamError("wait", "Missing ms")
      [] tag = "task_done" ->
            IF IsStr(Get(action, "reason"))
            THEN [arm |-> "task_done"]
            ELSE ParamError("task_done", "Missing reason")
      [] OTHER -> ParamError("unknown", "Unknown action type")

\* The test after the match: the action failed and its result carries at
\* least 3 retries.
AnyFailurePauses(action_result) == ~action_result.success

TooManyRetries(action_result) ==
    ~action_result.success /\ action_result.retry_count >= RetryCeiling

\* ------------------------------------------------- the library crate
\* The library's own ActionResult and TaskState (models.rs), and the
\* execute_action, verify_action and retry_action built on them.

\* ActionResult::new of models.rs.
LibActionResultNew(action_type) ==
    [action_type |-> action_type, success |-> FALSE,
     error_message |-> NoError, retry_count |-> 0]

\* ActionResult::mark_success: the message is cleared.
MarkSuccess(r) == [r EXCEPT !.success = TRUE, !.error_message = NoError]

\* ActionResult::mark_error.
MarkError(r, message) ==
    [r EXCEPT !.success = FALSE, !.error_message = message]

\* ActionResult::increment_retry of models.rs.
LibIncrementRetry(r) == [r EXCEPT !.retry_count = @ + 1]

\* TaskState::new of models.rs.
LibTaskStateNew ==
    [status |-> "idle", analysis |-> JO(<<>>), action_results |-> <<>>]

\* TaskState::set_task_done of models.rs.
LibSetTaskDone(ts) == [ts EXCEPT !.status = "task_done"]

\* TaskState::add_action_result of models.rs.
LibAddActionResult(ts, result) ==
    [ts EXCEPT !.action_results = Append(@, result)]

\* The chord execute_action sends for a focus method; none for another one.
LibFocusSteps(method) ==
    CASE method = "alt_tab" ->
            <<KeyEv("Alt", "Press"), SleepEv(100), KeyEv("Tab", "Click"),
              SleepEv(100), KeyEv("Alt", "Release")>>
      [] method = "super_tab" ->
            <<KeyEv("Meta", "Press"), SleepEv(100), KeyEv("Tab", "Click"),
              SleepEv(100), KeyEv("Meta", "Release")>>
      [] OTHER -> <<>>

\* The enigo key of a (lowercased) modifier name of execute_action, "" when
\* the name is none of them.
LibModifierKey(key) ==
    CASE key \in {"control", "ctrl"} -> "Control"
      [] key = "alt" -> "Alt"
      [] key = "shift" -> "Shift"
      [] key \in {"meta", "super", "windows"} -> "Meta"
      [] OTHER -> ""

\* A loop of execute_action over all of key_names, in their order: one enigo
\* call in direction dir per modifier name, nothing for another name.
RECURSIVE LibModifierSteps(_, _)
LibModifierSteps(key_names, dir) ==
    IF key_names = <<>> THEN <<>>
    ELSE (IF LibModifierKey(Head(key_names)) = "" THEN <<>>
          ELSE <<KeyEv(LibModifierKey(Head(key_names)), dir)>>)
         \o LibModifierSteps(Tail(key_names), dir)

\* The letters execute_action types as the last key of a combination.
LibCombinationLetters == {"t", "w", "r", "l", "a", "c", "v", "x", "z"}

\* The key_combination arm of execute_action.
LibCombinationSteps(key_names) ==
    LibModifierSteps(key_names, "Press") \o <<SleepEv(50)>>
    \o (IF key_names # <<>>
           /\ key_names[Len(key_names)] \in LibCombinationLetters
        THEN <<TextEv(key_names[Len(key_names)])>> ELSE <<>>)
    \o <<SleepEv(50)>> \o LibModifierSteps(key_names, "Release")

\* An arm of execute_action: the message of mark_error (NoError when the arm
\* ends in mark_success), the enigo calls and sleeps it makes on the way, and
\* whether it calls set_task_done.
LibArmOf(msg, steps, task_done) ==
    [msg |-> msg, steps |-> steps, task_done |-> task_done]

\* The match of execute_action on action["action"].
LibArm(action) ==
    LET tag == IF IsStr(Get(action, "action")) THEN Get(action, "action").s
               ELSE "" IN
    CASE tag = "window_focus" ->
            IF IsStr(Get(action, "title")) /\ IsStr(Get(action, "class"))
               /\ IsStr(Get(action, "method"))
            THEN LibArmOf(NoError,
                     LibFocusSteps(Get(action, "method").s) \o <<SleepEv(500)>>,
                     FALSE)
            ELSE LibArmOf("Missing parameters for window_focus action", <<>>,
                          FALSE)
      [] tag = "mouse_move" ->
            IF IsInt(Get(action, "x")) /\ IsInt(Get(action, "y"))
            THEN LibArmOf(NoError,
                     <<MoveEv(Get(action, "x").n, Get(action, "y").n)>>, FALSE)
            ELSE LibArmOf("Missing coordinates for mouse_move action", <<>>,
                          FALSE)
      [] tag = "mouse_click" ->
            IF IsStr(Get(action, "button"))
            THEN LibArmOf(NoError,
                     CASE Get(action, "button").s = "left" ->
                              <<ButtonEv("Left", "Click")>>
                       [] Get(action, "button").s = "right" ->
                              <<ButtonEv("Right", "Click")>>
                       [] Get(action, "button").s = "middle" ->
                              <<ButtonEv("Middle", "Click")>>
                       [] OTHER -> <<>>,
                     FALSE)
            ELSE LibArmOf("Missing button for mouse_click action", <<>>, FALSE)
      [] tag = "key_press" ->
            IF IsStr(Get(action, "key"))
            THEN LibArmOf(NoError,
                     LET key == LowerTag(Get(action, "key").s) IN
                     CASE key \in {"return", "enter"} ->
                              <<KeyEv("Return", "Click")>>
                       [] key = "tab" -> <<KeyEv("Tab", "Click")>>
                       [] key = "escape" -> <<KeyEv("Escape", "Click")>>
                       [] OTHER -> <<>>,
                     FALSE)
            ELSE LibArmOf("Missing key for key_press action", <<>>, FALSE)
      [] tag = "key_combination" ->
            IF IsArr(Get(action, "keys"))
            THEN LibArmOf(NoError,
                     LibCombinationSteps(KeyNames(Get(action, "keys").a)), FALSE)
            ELSE LibArmOf("Missing keys for key_combination action", <<>>,
                          FALSE)
      [] tag = "text_input" ->
            IF IsStr(Get(action, "text"))
            THEN LibArmOf(NoError, <<TextEv(Get(action, "text").s)>>, FALSE)
            ELSE LibArmOf("Missing text for text_input action", <<>>, FALSE)
      [] tag = "wait" ->
            IF IsInt(Get(action, "ms"))
            THEN LibArmOf(NoError, <<SleepEv(Get(action, "ms").n)>>, FALSE)
            ELSE LibArmOf("Missing ms for wait action", <<>>, FALSE)
      [] tag = "task_done" ->
            IF IsStr(Get(action, "reason"))
            THEN LibArmOf(NoError, <<>>, TRUE)
            ELSE LibArmOf("Missing reason for task_done action", <<>>, FALSE)
      [] OTHER -> LibArmOf("Unknown action type", <<>>, FALSE)

\* The enigo calls of the arm, each of them unwrapped; 0 is no failure.
LibFailPoints(action) ==
    {0} \cup {i \in 1..Len(LibArm(action).steps) :
                 IsInjection(LibArm(action).steps[i])}

\* execute_action when enigo answers Err at step failAt: the unwrap of that
\* step panics, and nothing after it happens. Otherwise the result is marked,
\* added to the TaskState and returned.
LibExecuteAction(action, task_state, failAt) ==
    LET arm == LibArm(action)
        result == LibActionResultNew(ActionTag(action))
    IN  IF failAt # 0
        THEN [panicked |-> TRUE, events |-> SubSeq(arm.steps, 1, failAt - 1),
              result |-> result, task_state |-> task_state]
        ELSE LET marked == IF arm.msg = NoError THEN MarkSuccess(result)
                           ELSE MarkError(result, arm.msg)
                 done == IF arm.task_done THEN LibSetTaskDone(task_state)
                         ELSE task_state
             IN  [panicked |-> FALSE, events |-> arm.steps, result |-> marked,
                  task_state |-> LibAddActionResult(done, marked)]

\* The match that verify_action and retry_action of the library both make
\* on the action tag, given the `state` object of task_state.analysis.
LibVerifyMatch(result, action, state) ==
    LET title == IF IsStr(Get(action, "title")) THEN Get(action, "title").s
                 ELSE EmptyString
        active_window == Get(state, "active_window")
    IN  IF ~IsStr(Get(action, "action"))
        THEN MarkError(result, "Unknown action type")
        ELSE IF ActionTag(action) = "window_focus"
        THEN IF ~IsStr(active_window)
             THEN MarkError(result, "No active window information available")
             ELSE IF Contains(ToLowercase(active_window.s), ToLowercase(title))
             THEN MarkSuccess(result)
             ELSE MarkError(result, "Window focus failed")
        ELSE IF ActionTag(action) \in AlwaysVerified
        THEN MarkSuccess(result)
        ELSE MarkError(result, "Unknown action type")

\* state["active_window"] panics when the key is absent; the library reaches
\* it for every window_focus.
LibIndexPanics(action, state) ==
    /\ IsStr(Get(action, "action"))
    /\ ActionTag(action) = "window_focus"
    /\ "active_window" \notin DOMAIN state.o

\* The body verify_action and retry_action share, from the result each of
\* them starts with: the early return without a `state` object, the match.
LibVerifyFrom(result, action, analysis) ==
    IF ~IsObj(Get(analysis, "state"))
    THEN [result |-> result, panicked |-> FALSE]
    ELSE IF LibIndexPanics(action, Get(analysis, "state"))
    THEN [result |-> result, panicked |-> TRUE]
    ELSE [result |-> LibVerifyMatch(result, action, Get(analysis, "state")),
          panicked |-> FALSE]

\* verify_action of the library.
LibVerifyAction(action, analysis) ==
    LibVerifyFrom(LibActionResultNew(ActionTag(action)), action, analysis)

\* retry_action of the library: the result starts with one retry counted.
LibRetryAction(action, analysis) ==
    LibVerifyFrom(LibIncrementRetry(LibActionResultNew(ActionTag(action))),
                  action, analysis)

\* ------------------------------------------------------------------ inputs
\* Lines the user types on the console, as read_line returns them.
LineStopPadded == <<" ", "s", "t", "o", "p", " ", "\n">>
LinePause == <<"p", "a", "u", "s", "e", "\n">>
LineGoPadded == <<" ", "g", "o", " ", "\n">>

ConsoleLines ==
    {LineStopPadded, LinePause, <<"r", "e", "s", "u", "m", "e", "\n">>,
     <<"h", "e", "l", "p", "\n">>, LineGoPadded, <<"\n">>}

CmdStop == <<"s", "t", "o", "p">>
CmdPause == <<"p", "a", "u", "s", "e">>
CmdResume == <<"r", "e", "s", "u", "m", "e">>
CmdHelp == <<"h", "e", "l", "p">>

\* What generate_self_instruction returns (the trimmed LLM answer).
GeneratedInstructions == {<<"n", "x">>}

\* Window titles.
TitleCh == <<"C", "h">>
WindowChrome == <<"c", "h", "r">>
WindowTerm == <<"t", "e">>

\* Actions of a plan.
FocusAlt ==
    JO([action |-> JS("window_focus"), title |-> JS(TitleCh),
        class |-> JS("chrome"), method |-> JS("alt_tab")])
WaitOk == JO([action |-> JS("wait"), ms |-> JI(100)])
DoneOk == JO([action |-> JS("task_done"), reason |-> JS("finished")])
ClickLeft == JO([action |-> JS("mouse_click"), button |-> JS("left")])
TextMissing == JO([action |-> JS("text_input")])

CoreActions == {FocusAlt, DoneOk, ClickLeft, TextMissing}

\* The analysis the LLM answers with, after parsing.
AnalysisWith(active_window) ==
    JO([context |-> JS("desktop"),
        ui_elements |-> JA(<<>>),
        state |-> JO([active_window |-> JS(active_window),
                      window_title |-> JS("w")]),
        challenges |-> JA(<<>>)])

CoreAnalyses == {AnalysisWith(WindowChrome), AnalysisWith(WindowTerm)}

\* The action with one field left out, and with one field of another type.
Without(action, f) == JO([g \in DOMAIN action.o \ {f} |-> action.o[g]])
Retyped(action, f, v) == JO([action.o EXCEPT ![f] = v])

MoveOk == JO([action |-> JS("mouse_move"), x |-> JI(200), y |-> JI(200)])
KeyTab == JO([action |-> JS("key_press"), key |-> JS("Tab")])
ComboOf(keys) ==
    JO([action |-> JS("key_combination"),
        keys |-> JA([i \in 1..Len(keys) |-> JS(keys[i])])])
ComboCtrlT == ComboOf(<<"Control", "t">>)
TextOk == JO([action |-> JS("text_input"), text |-> JS("hello")])
ClickAt ==
    JO([action |-> JS("mouse_click"), button |-> JS("left"), x |-> JI(200),
        y |-> JI(200)])

\* Actions with every required field, rightly typed.
WellFormedActions ==
    {FocusAlt, Retyped(FocusAlt, "method", JS("super_tab")),
     Retyped(FocusAlt, "method", JS("click")),
     MoveOk,
     ClickLeft, ClickAt, Retyped(ClickLeft, "button", JS("LEFT")),
     Retyped(ClickLeft, "button", JS("side")),
     KeyTab, Retyped(KeyTab, "key", JS("f1")),
     ComboCtrlT, ComboOf(<<>>), ComboOf(<<"control", "hyper", "t">>),
     ComboOf(<<"control", "shift", "f5">>),
     TextOk, WaitOk, DoneOk}

\* The fields the match of main requires of each kind of action.
RequiredFields(action_type) ==
    CASE action_type = "window_focus" -> {"title", "class", "method"}
      [] action_type = "mouse_move" -> {"x", "y"}
      [] action_type = "mouse_click" -> {"button"}
      [] action_type = "key_press" -> {"key"}
      [] action_type = "key_combination" -> {"keys"}
      [] action_type = "text_input" -> {"text"}
      [] action_type = "wait" -> {"ms"}
      [] action_type = "task_done" -> {"reason"}
      [] OTHER -> {}

\* Well-formed actions of each kind, one required field left out or given a
\* value of another JSON type.
BrokenActions ==
    UNION {
        {Without(a, f) : f \in RequiredFields(ActionTag(a))} \cup
        {Retyped(a, f, v) : f \in RequiredFields(ActionTag(a)),
                           v \in {JNull, JB(TRUE)}}
        : a \in {FocusAlt, MoveOk, ClickLeft, KeyTab, ComboCtrlT, TextOk,
                 WaitOk, DoneOk}}

\* With them, the actions with no usable tag.
WideActions ==
    WellFormedActions \cup BrokenActions
    \cup {JO([action |-> JS("scroll")]), JO(<<>>), JO([action |-> JI(1)])}

\* An element of ui_elements with its bounding box.
Element(x1, y1, x2, y2) ==
    JO([type |-> JS("button"),
        coords |-> JA(<<JI(x1), JI(y1), JI(x2), JI(y2)>>)])

\* An analysis without a `state` object, with the given ui_elements.
ElementsOnly(elements) ==
    JO([context |-> JS("desktop"), ui_elements |-> JA(elements),
        challenges |-> JA(<<>>)])

OneElement == ElementsOnly(<<Element(40, 50, 60, 70)>>)

\* Five elements: one without coords, one whose third coordinate is no
\* integer, and two whose centres are equally far from (200,200).
TiedElements ==
    ElementsOnly(<<JO([type |-> JS("label")]), Element(40, 50, 60, 70),
                   JO([type |-> JS("icon"),
                       coords |-> JA(<<JI(200), JI(200), JS("200"),
                                       JI(200)>>)]),
                   Element(181, 180, 200, 221), Element(180, 181, 221, 200)>>)

\* With them: analyses without a `state` object (one element of
\* ui_elements; several, one of them without coords and two at the same
\* distance of (200,200)), one without ui_elements, one whose state has no
\* active_window, one whose active_window is null.
WideAnalyses ==
    CoreAnalyses \cup
    {OneElement, TiedElements,
     JO([context |-> JS("desktop"),
         state |-> JO([active_window |-> JS(WindowChrome)]),
         challenges |-> JA(<<>>)]),
     JO([context |-> JS("desktop"),
         ui_elements |-> JA(<<>>),
         state |-> JO([window_title |-> JS("w")]),
         challenges |-> JA(<<>>)]),
     JO([context |-> JS("desktop"),
         ui_elements |-> JA(<<>>),
         state |-> JO([active_window |-> JNull, window_title |-> JS("w")]),
         challenges |-> JA(<<>>)])}

\* All sequences over S of length at most n.
SeqsUpTo(S, n) == UNION {[1..k -> S] : k \in 0..n}

\* Text that is no JSON at all.
Malformed == [t |-> "malformed"]

\* The action-plan text the LLM answers with: an array of actions, a JSON
\* value that is no array, or no JSON.
PlanTexts(S, n) == {JA(p) : p \in SeqsUpTo(S, n)} \cup {Malformed, JO(<<>>)}

\* serde_json::from_str::<Value> is Ok.
ParsesAsJson(text) == text.t # "malformed"

\* serde_json::from_str::<Vec<Value>> is Ok.
ParsesAsArray(text) == text.t = "arr"

\* ------------------------------------------------- the analysis text
\* The cleaned answer to the analysis request. A text that is the JSON
\* document of a value is given by that value; another text by its lexemes:
\* OB is `{"k":`, CB is `}`, OA is `[`, CA is `]`, "1" is a number and
\* StrBrace is the string literal "{", which holds one opening brace.
WellFormedText(json) == [json |-> json, lexemes |-> <<>>]
RawText(lexemes) == [json |-> Malformed, lexemes |-> lexemes]
TextsOf(analyses) == {WellFormedText(a) : a \in analyses}

\* let mut analysis_json = String::new(), trimmed.
NoText == RawText(<<>>)

OB == "{"
CB == "}"
OA == "["
CA == "]"
StrBrace == "s{"
Lexemes == {OB, CB, OA, CA, "1", StrBrace}

ParseFailed == [ok |-> FALSE, val |-> JNull, next |-> 0]
Parsed(val, next) == [ok |-> TRUE, val |-> val, next |-> next]

\* serde_json's parser on the lexemes from position pos: one value, and the
\* position after it. value ::= 1 | "{" | {"k": value } | [ ] | [ value ]
RECURSIVE ParseValue(_, _)
ParseValue(lex, pos) ==
    IF pos > Len(lex) THEN ParseFailed
    ELSE CASE lex[pos] = "1" -> Parsed(JI(1), pos + 1)
           [] lex[pos] = StrBrace -> Parsed(JS("{"), pos + 1)
           [] lex[pos] = OB ->
                LET v == ParseValue(lex, pos + 1) IN
                IF v.ok /\ v.next <= Len(lex) /\ lex[v.next] = CB
                THEN Parsed(JO([k |-> v.val]), v.next + 1)
                ELSE ParseFailed
           [] lex[pos] = OA ->
                IF pos + 1 <= Len(lex) /\ lex[pos + 1] = CA
                THEN Parsed(JA(<<>>), pos + 2)
                ELSE LET v == ParseValue(lex, pos + 1) IN
                     IF v.ok /\ v.next <= Len(lex) /\ lex[v.next] = CA
                     THEN Parsed(JA(<<v.val>>), v.next + 1)
                     ELSE ParseFailed
           [] OTHER -> ParseFailed

\* serde_json::from_str::<Value>: the value, Malformed on Err (also when
\* characters trail the value).
FromStr(text) ==
    IF text.json # Malformed THEN text.json
    ELSE LET v == ParseValue(text.lexemes, 1) IN
         IF v.ok /\ v.next = Len(text.lexemes) + 1 THEN v.val ELSE Malformed

\* fixed_json.matches(c).count() for a character c: the lexemes that hold it.
Matches(lex, holders) == Cardinality({i \in 1..Len(lex) : lex[i] \in holders})

\* The analysis that stands in for a text that cannot be repaired.
CannedAnalysis ==
    JO([context |-> JS("error"),
        ui_elements |-> JA(<<>>),
        state |-> JO([focused_element |-> JNull, selected_text |-> JNull,
                      active_window |-> JS("unknown"),
                      window_title |-> JS("unknown"),
                      window_class |-> JS("unknown"),
                      target_window |-> JNull]),
        challenges |->
            JA(<<JS("JSON parsing error, possible truncation")>>)])

\* The Err arm of the first parse up to the second parse: the counts are
\* usize, so `open - close` with more closers than openers overflows. A
\* build with overflow checks panics there; one without wraps to about 2^64
\* iterations of push, which ends the process when the allocation fails.
Repair(text) ==
    LET lex == text.lexemes
        open_braces == Matches(lex, {OB, StrBrace})
        close_braces == Matches(lex, {CB})
        open_brackets == Matches(lex, {OA})
        close_brackets == Matches(lex, {CA})
    IN  IF close_braces > open_braces \/ close_brackets > open_brackets
        THEN [panicked |-> TRUE, fixed_json |-> text]
        ELSE [panicked |-> FALSE,
              fixed_json |->
                  RawText(lex \o [i \in 1..(open_braces - close_braces) |-> CB]
                              \o [i \in 1..(open_brackets - close_brackets)
                                     |-> CA])]

\* let parsed_analysis = match serde_json::from_str(clean_analysis) { ... }.
ParseAnalysis(text) ==
    IF FromStr(text) # Malformed
    THEN [panicked |-> FALSE, json |-> FromStr(text)]
    ELSE LET r == Repair(text) IN
         IF r.panicked THEN [panicked |-> TRUE, json |-> JNull]
         ELSE [panicked |-> FALSE,
               json |-> IF FromStr(r.fixed_json) # Malformed
                        THEN FromStr(r.fixed_json) ELSE CannedAnalysis]

\* ------------------------------------------------- TaskState: its methods
\* The text of an analysis as update and is_complete take it: what
\* serde_json::from_str::<Value> makes of it (Malformed when it is no JSON)
\* and the phrases that occur in it as substrings.
AnalysisText(json, phrases) == [json |-> json, phrases |-> phrases]

\* The empty string "".
EmptyText == AnalysisText(Malformed, {})

\* A search that finds every criterion in every text.
TextContainsAnything(text, criterion) == TRUE

\* analysis.contains(criterion)
TextContains(text, criterion) == criterion \in text.phrases

\* The label of a feedback entry, the entry taken whole.
LabelWhole(f) == f

\* f.split(":").next(): the text before the first colon, the whole entry
\* when it has none.
Label(f) ==
    LET colons == {i \in 1..Len(f) : f[i] = ":"} IN
    IF colons = {} THEN f
    ELSE SubSeq(f, 1, (CHOOSE i \in colons : \A j \in colons : i <= j) - 1)

\* feedback.iter().rev().take(3) and the label of each: most recent first.
LastLabels(feedback) ==
    [k \in 1..(IF Len(feedback) < 3 THEN Len(feedback) ELSE 3) |->
        Label(feedback[Len(feedback) + 1 - k])]

\* A should_pause that pauses from the tenth attempt on.
ShouldPauseFromTen(ts) == ts.attempts >= 10

\* TaskState::should_pause.
ShouldPause(ts) ==
    IF ts.attempts > 10 THEN TRUE
    ELSE IF ts.attempts > 3
            /\ LET last_actions == LastLabels(ts.feedback) IN
               /\ Len(last_actions) = 3
               /\ last_actions[1] = last_actions[2]
               /\ last_actions[2] = last_actions[3]
    THEN TRUE
    ELSE FALSE

\* TaskState::is_complete.
IsComplete(ts, analysis) ==
    IF ts.attempts < 2 THEN FALSE
    ELSE IF \E i \in 1..Len(ts.success_criteria) :
                ~TextContains(analysis, ts.success_criteria[i])
    THEN FALSE
    ELSE IF /\ analysis.json # Malformed
            /\ IsArr(Get(analysis.json, "challenges"))
            /\ Get(analysis.json, "challenges").a # <<>>
    THEN FALSE
    ELSE IF ts.last_action = "" THEN FALSE
    ELSE TRUE

\* update: state["window_title"] indexes a serde_json Map, which panics when
\* the analysis has a `state` object without that key.
UpdatePanics(analysis) ==
    /\ analysis.json # Malformed
    /\ IsObj(Get(analysis.json, "state"))
    /\ "window_title" \notin DOMAIN Get(analysis.json, "state").o

\* HashMap::insert.
Insert(memory, key, value) ==
    [k \in DOMAIN memory \cup {key} |-> IF k = key THEN value ELSE memory[k]]

\* The strings of the challenges array, in order.
RECURSIVE ChallengeStrings(_)
ChallengeStrings(challenges) ==
    IF challenges = <<>> THEN <<>>
    ELSE (IF IsStr(Head(challenges)) THEN <<Head(challenges).s>> ELSE <<>>)
         \o ChallengeStrings(Tail(challenges))

\* TaskState::update(analysis, actions), when it returns.
Update(ts, analysis, actions) ==
    LET last == IF ParsesAsArray(actions) /\ actions.a # <<>>
                THEN Get(actions.a[Len(actions.a)], "action") ELSE JNull
        json == IF analysis.json # Malformed THEN analysis.json ELSE JNull
        context == Get(json, "context")
        window_title == Get(Get(json, "state"), "window_title")
        challenges == Get(json, "challenges")
        with_context == IF IsStr(context)
                        THEN Insert(ts.memory, "last_context", context.s)
                        ELSE ts.memory
    IN  [ts EXCEPT
            !.attempts = @ + 1,
            !.last_update = Now,
            !.last_action = IF IsStr(last) THEN last.s ELSE @,
            !.memory = IF IsStr(window_title)
                       THEN Insert(with_context, "last_window", window_title.s)
                       ELSE with_context,
            !.feedback = IF IsArr(challenges)
                         THEN @ \o ChallengeStrings(challenges.a) ELSE @]

\* TaskState::add_action_result of models/task_state.rs: the push, then
\* self.update("", "").
AddActionResult(ts, result) ==
    Update([ts EXCEPT !.action_results = Append(@, result)], EmptyText,
           Malformed)

\* ------------------------------------------- TaskState: values and texts
\* Feedback entries: two with the label "t" and different details, one that
\* is the label "t" alone, one with the label "e".
FeedbackEntries ==
    {<<"t", ":", "x">>, <<"t", ":", "y">>, <<"t">>, <<"e", ":", "x">>}

\* A failed ActionResult with a message and one retry, as a state can hold.
FailedResult ==
    IncrementRetry(WithError(ActionResultNew("window_focus"),
                             "Window focus failed"))

\* TaskStates: a new one, and one later in its life, each with every number
\* of attempts around the thresholds and every short feedback list.
TaskStates ==
    {[ts EXCEPT !.attempts = a, !.feedback = f, !.last_action = l]
        : ts \in {TaskStateNew(<<"g", "o">>),
                  [TaskStateNew(EmptyString) EXCEPT
                      !.status = "paused",
                      !.memory = Insert(<<>>, "last_window", "w"),
                      !.start_time = 0,
                      !.action_results =
                          <<Success(ActionResultNew("wait")), FailedResult>>]},
          a \in {1, 2, 3, 4, 10, 11},
          f \in SeqsUpTo(FeedbackEntries, 3),
          l \in {"", "wait"}}

AllCriteria ==
    {"Task completed", "Information found", "Research complete", "Task done"}

\* Analysis texts: JSON with and without challenges, with and without the
\* phrases of the criteria, with a `state` that has no window_title; text that
\* is no JSON; the empty string.
AnalysisTexts ==
    {AnalysisText(AnalysisWith(WindowChrome), {}),
     AnalysisText(AnalysisWith(WindowChrome), AllCriteria),
     AnalysisText(JO([summary |-> JS("Task completed")]),
                  AllCriteria \ {"Task done"}),
     AnalysisText(JO([summary |-> JS("all")]), AllCriteria),
     AnalysisText(JO([context |-> JI(1), state |-> JS("none"),
                      challenges |-> JA(<<JS(<<"t", ":", "y">>), JI(1),
                                          JS(<<"e", ":", "x">>)>>)]),
                  AllCriteria),
     AnalysisText(JO([state |-> JO([active_window |-> JS(WindowChrome)])]),
                  {}),
     AnalysisText(Malformed, AllCriteria),
     EmptyText}

\* Action-plan texts: arrays ending in an action with a tag and in one
\* without, the empty array, a JSON object, text that is no JSON.
ActionTexts == PlanTexts({WaitOk, JO(<<>>)}, 1)

\* ------------------------------------------------------------------- state
VARIABLES
    should_continue,      \* Arc<Mutex<bool>>: the continue flag
    current_instruction,  \* Arc<Mutex<String>>: the shared instruction
    is_idle,              \* Arc<Mutex<bool>>: the idle flag
    cpc,                  \* console thread: where it is
    last_line,            \* console thread: the line read_line returned
    mpc,                  \* main thread: where it is
    disk,                 \* task_state.json of the iteration directory
    instruction,          \* main: its copy of the instruction
    task_state,           \* main: the TaskState of the iteration
    clean_analysis,       \* main: the cleaned text of the analysis answer
    parsed_analysis,      \* main: the analysis of the iteration
    clean_action,         \* main: the action-plan text of the iteration
    idx,                  \* main: position of the for loop in the plan
    action_result,        \* main: the ActionResult of the action at idx
    effects,              \* history: enigo calls, sleeps and verifications
    outcomes,             \* history: the actions the match has run
    awaiting,             \* history: task_done ran, no instruction since
    pending,              \* history: who wrote the idle flag since the poll
    resumed,              \* history: an instruction came after task_done
    holder                \* the thread inside each of the three mutexes

shared == <<should_continue, current_instruction, is_idle>>
console == <<cpc, last_line>>
locals == <<instruction, task_state, clean_analysis, parsed_analysis,
            clean_action, idx, action_result>>
history == <<effects, outcomes, awaiting, pending, resumed, holder>>

\* The three Arc<Mutex<..>> of main and the two threads that lock them.
Mutexes == {"should_continue", "current_instruction", "is_idle"}
Threads == {"console", "main"}
AllFree == [m \in Mutexes |-> "free"]
vars == <<shared, console, mpc, disk, locals, history>>

NoLine == <<>>
NoResult == ActionResultNew("none")

\* The locals of an iteration before it assigns them.
LocalsUnset ==
    /\ instruction = EmptyString
    /\ task_state = TaskStateNew(EmptyString)
    /\ clean_analysis = NoText
    /\ parsed_analysis = JNull
    /\ clean_action = Malformed
    /\ idx = 0
    /\ action_result = NoResult
    /\ effects = <<>>
    /\ outcomes = <<>>

\* The same of the next state: the locals go out of scope.
DropLocals ==
    /\ instruction' = EmptyString
    /\ task_state' = TaskStateNew(EmptyString)
    /\ clean_analysis' = NoText
    /\ parsed_analysis' = JNull
    /\ clean_action' = Malformed
    /\ idx' = 0
    /\ action_result' = NoResult
    /\ effects' = <<>>
    /\ outcomes' = <<>>

\* main, before the console thread is spawned and the loop entered.
Init ==
    /\ should_continue = TRUE
    /\ current_instruction = EmptyString
    /\ is_idle = TRUE
    /\ cpc = "while"
    /\ last_line = NoLine
    /\ mpc = "while"
    /\ disk = NoFile
    /\ LocalsUnset
    /\ awaiting = FALSE
    /\ pending = "none"
    /\ resumed = "no"
    /\ holder = AllFree

\* ---------------------------------------------------------- console thread
\* while *should_continue_clone.lock().unwrap()
C_While ==
    /\ cpc = "while"
    /\ cpc' = IF should_continue THEN "read" ELSE "exited"
    /\ last_line' = NoLine
    /\ UNCHANGED <<shared, mpc, disk, locals, history>>

\* What the console match does with the trimmed line to the continue flag.
ConsoleContinuePauseStops(input, flag) ==
    IF input \in {CmdStop, CmdPause} THEN FALSE ELSE flag

ConsoleContinue(input, flag) == IF input = CmdStop THEN FALSE ELSE flag

\* Whether the trimmed line is taken as an instruction (the `_` arm).
IsInstruction(input) == input \notin {CmdStop, CmdPause, CmdResume, CmdHelp}

\* read_line and the match on the trimmed input, up to and including the
\* first lock the arm takes.
C_ReadLine ==
    /\ cpc = "read"
    /\ \E line \in ConsoleLines :
        LET input == Trim(line) IN
        /\ last_line' = line
        /\ should_continue' = ConsoleContinue(input, should_continue)
        /\ current_instruction' =
               IF IsInstruction(input) THEN input ELSE current_instruction
        /\ cpc' = IF IsInstruction(input) THEN "set_idle" ELSE "while"
    /\ UNCHANGED <<is_idle, mpc, disk, locals, history>>

\* The value the `_` arm stores in the idle flag.
ConsoleIdle == FALSE

\* *is_idle_clone.lock().unwrap() = false
C_SetIdle ==
    /\ cpc = "set_idle"
    /\ is_idle' = ConsoleIdle
    /\ cpc' = "while"
    /\ last_line' = NoLine
    /\ awaiting' = FALSE
    /\ pending' = "console"
    /\ resumed' = IF awaiting THEN "arrived" ELSE resumed
    /\ UNCHANGED holder
    /\ UNCHANGED <<should_continue, current_instruction, mpc, disk, locals,
                   effects, outcomes>>

ConsoleNext == C_While \/ C_ReadLine \/ C_SetIdle

\* ------------------------------------------------------------- main thread
\* The condition of the main loop, given the continue flag it reads.
MainLoopCondStale(flag) == TRUE

MainLoopCond(flag) == flag

\* while *should_continue.lock().unwrap(); after the loop, the join.
M_While ==
    /\ mpc = "while"
    /\ mpc' = IF MainLoopCond(should_continue) THEN "check_idle" ELSE "join"
    /\ UNCHANGED <<shared, console, disk, locals, history>>

\* The poll of the idle flag: whether the loop sleeps and continues.
IdlePollIgnored(flag) == FALSE

IdlePoll(flag) == flag

\* if *is_idle.lock().unwrap() { sleep(100ms); continue; }
M_CheckIdle ==
    /\ mpc = "check_idle"
    /\ mpc' = IF IdlePoll(is_idle) THEN "while" ELSE "capture"
    /\ pending' = "none"
    /\ UNCHANGED <<shared, console, disk, locals, effects, outcomes, awaiting,
                   resumed, holder>>

\* The iteration directory is named by the second: a new second gives an
\* empty directory, the same second the directory of the iteration before.
\* Then the screens are captured into it.
M_Capture ==
    /\ mpc = "capture"
    /\ \E new_second \in BOOLEAN :
           disk' = IF new_second THEN NoFile ELSE disk
    /\ mpc' = "read_instruction"
    /\ UNCHANGED <<shared, console, locals, history>>

\* let instruction = current_instruction.lock().unwrap().clone()
M_ReadInstruction ==
    /\ mpc = "read_instruction"
    /\ instruction' = current_instruction
    /\ mpc' = "load"
    /\ UNCHANGED <<shared, console, disk, task_state, clean_analysis,
                   parsed_analysis, clean_action, idx, action_result, history>>

\* The TaskState the iteration works on: the loaded one, or a fresh one when
\* the loaded one is task_done and the instruction is not empty.
IterationState(file, instr) ==
    LET loaded == LoadTaskState(file) IN
    IF loaded.status = "task_done" /\ instr # EmptyString
    THEN TaskStateNew(instr)
    ELSE loaded

\* load_task_state, the reset out of task_done, the task_done check (idle
\* flag set, state saved, continue) and the save before the prompt.
M_LoadState ==
    /\ mpc = "load"
    /\ LET ts == IterationState(disk, instruction) IN
       /\ disk' = SaveTaskState(ts)
       /\ IF ts.status = "task_done"
          THEN /\ is_idle' = TRUE
               /\ pending' = IF pending = "console" THEN "overwritten"
                             ELSE pending
               /\ mpc' = "while"
               /\ DropLocals
               /\ UNCHANGED <<awaiting>>
          ELSE /\ task_state' = ts
               /\ mpc' = "analysis"
               /\ UNCHANGED <<is_idle, instruction, clean_analysis,
                              parsed_analysis, effects, outcomes, awaiting,
                              pending, clean_action, idx, action_result>>
    /\ resumed' = IF resumed = "arrived" THEN "loaded" ELSE "no"
    /\ UNCHANGED holder
    /\ UNCHANGED <<should_continue, current_instruction, console>>

\* A panic of the main thread: it unwinds out of main and the process
\* exits, which ends the console thread wherever it is.
Panic ==
    /\ mpc' = "panicked"
    /\ cpc' = "killed"
    /\ UNCHANGED <<shared, last_line, disk, locals, history>>

\* Stage 1: the analysis request, its answer parsed (or repaired, or replaced
\* by the canned analysis).
AnalysisRequest(answers) ==
    /\ mpc = "analysis"
    /\ \E text \in answers :
         LET parsed == ParseAnalysis(text) IN
         IF parsed.panicked THEN Panic
         ELSE /\ clean_analysis' = text
              /\ parsed_analysis' = parsed.json
              /\ mpc' = "plan"
              /\ UNCHANGED <<shared, console, disk, instruction, task_state,
                             clean_action, idx, action_result, history>>

\* Stage 2: the action-plan request and its cleaned answer.
PlanRequest(answers) ==
    /\ mpc = "plan"
    /\ \E text \in answers : clean_action' = text
    /\ mpc' = "self_instruction"
    /\ UNCHANGED <<shared, console, disk, instruction, task_state,
                   clean_analysis, parsed_analysis, idx, action_result,
                   history>>

\* if task_state.status != "completed" { the generated instruction is stored
\* in the shared instruction }
M_SelfInstruction ==
    /\ mpc = "self_instruction"
    /\ IF task_state.status # "completed"
       THEN \E g \in GeneratedInstructions : current_instruction' = g
       ELSE UNCHANGED current_instruction
    /\ mpc' = "validate"
    /\ UNCHANGED <<should_continue, is_idle, console, disk, locals, history>>

\* The plan is parsed: on Err the iteration ends with `continue`, on Ok the
\* for loop over the actions starts.
M_Validate ==
    /\ mpc = "validate"
    /\ IF ParsesAsArray(clean_action)
       THEN /\ idx' = 1
            /\ mpc' = "for_head"
            /\ UNCHANGED <<instruction, task_state, clean_analysis,
                           parsed_analysis, clean_action, action_result,
                           effects, outcomes>>
       ELSE /\ mpc' = "while"
            /\ DropLocals
    /\ UNCHANGED <<shared, console, disk, awaiting, pending, resumed, holder>>

\* The action the for loop hands out at position i of the plan.
ActionAtReversed(plan, i) == plan[Len(plan) + 1 - i]

ActionAt(plan, i) == plan[i]

\* The break at the head of the loop body, given the continue flag.
StopBreakAlways(flag) == TRUE

StopBreak(flag) == ~flag

\* for action in actions { if !*should_continue.lock().unwrap() { break; } ...
M_ForHead ==
    /\ mpc = "for_head"
    /\ mpc' = IF idx > Len(clean_action.a) \/ StopBreak(should_continue)
              THEN "iter_end" ELSE "dispatch"
    /\ UNCHANGED <<shared, console, disk, locals, history>>

\* The entries of the history of effects made for the action at position i.
Tagged(events, i) == [k \in 1..Len(events) |-> [idx |-> i, ev |-> events[k]]]

VerifyEv == [op |-> "verify"]

\* The points, up to step n, at which the wrapper call of an arm can fail.
ArmFailPoints(e, n) ==
    IF e.arm = "call" THEN FailPoints(e.call) \cap 0..n ELSE {0}

\* The value the task_done arm stores in the idle flag.
TaskDoneIdleCleared == FALSE

TaskDoneIdle == TRUE

\* One run of the match on `action` when enigo fails at failAt: the events,
\* whether the arm ended with a result (or went on to retry_action), that
\* result, and whether the arm was the task_done arm.
RunArm(action, failAt) ==
    LET e == Execute(action) IN
    CASE e.arm = "error" ->
            [events |-> <<>>, finished |-> TRUE, result |-> e.result,
             task_done |-> FALSE]
      [] e.arm = "call" ->
            LET o == Outcome(e.call, failAt) IN
            IF o.err # NoError
            THEN [events |-> o.events, finished |-> TRUE,
                  result |-> WithError(ActionResultNew(e.action_type), o.err),
                  task_done |-> FALSE]
            ELSE [events |-> o.events \o
                             (IF e.settle > 0 THEN <<SleepEv(e.settle)>>
                              ELSE <<>>),
                  finished |-> FALSE, result |-> NoResult,
                  task_done |-> FALSE]
      [] e.arm = "wait" ->
            [events |-> <<SleepEv(e.ms)>>, finished |-> TRUE,
             result |-> Success(ActionResultNew("wait")), task_done |-> FALSE]
      [] e.arm = "task_done" ->
            [events |-> <<>>, finished |-> TRUE,
             result |-> Success(ActionResultNew("task_done")),
             task_done |-> TRUE]

\* The entry of `outcomes` for the action at idx.
OutcomeOf(action, result, via) ==
    [action |-> action, result |-> result, via |-> via]

\* let action_result = match action["action"].as_str() { ... }, up to the
\* call of retry_action or, in the arms that do not call it, to the result.
Dispatch(n) ==
    /\ mpc = "dispatch"
    /\ LET action == ActionAt(clean_action.a, idx) IN
       \E failAt \in ArmFailPoints(Execute(action), n) :
        LET d == RunArm(action, failAt) IN
        /\ effects' = effects \o Tagged(d.events, idx)
        /\ action_result' = d.result
        /\ outcomes' = IF d.finished
                       THEN Append(outcomes, OutcomeOf(action, d.result, "match"))
                       ELSE outcomes
        /\ mpc' = IF d.finished THEN "check" ELSE "verify"
        /\ task_state' = IF d.task_done THEN SetTaskDone(task_state)
                         ELSE task_state
        /\ disk' = IF d.task_done THEN SaveTaskState(SetTaskDone(task_state))
                   ELSE disk
        /\ is_idle' = IF d.task_done THEN TaskDoneIdle ELSE is_idle
        /\ awaiting' = IF d.task_done THEN TRUE ELSE awaiting
        /\ pending' = IF d.task_done /\ pending = "console" THEN "overwritten"
                      ELSE pending
        /\ UNCHANGED <<resumed, holder>>
    /\ UNCHANGED <<should_continue, current_instruction, console, instruction,
                   clean_analysis, parsed_analysis, clean_action, idx>>

\* retry_action: let mut result = verify_action(...), and the guard.
M_Verify ==
    /\ mpc = "verify"
    /\ LET action == ActionAt(clean_action.a, idx)
           v == VerifyAction(action, parsed_analysis)
       IN  IF v.panicked THEN Panic
           ELSE
           /\ task_state' = PushVerified(task_state, v)
           /\ action_result' = v.result
           /\ effects' = effects \o Tagged(<<VerifyEv>>, idx)
           /\ IF ShouldRetry(v.result)
              THEN /\ mpc' = "adjust"
                   /\ UNCHANGED outcomes
              ELSE /\ mpc' = "check"
                   /\ outcomes' = Append(outcomes,
                                         OutcomeOf(action, v.result, "retry"))
           /\ UNCHANGED <<shared, console, disk, instruction, clean_analysis,
                          parsed_analysis, clean_action, idx, awaiting,
                          pending, resumed, holder>>

\* The ways the calls of an adjustment can fail: one fail point, up to step
\* n, per call.
FailVectors(calls, n) ==
    {fs \in [1..Len(calls) -> 0..n] :
        \A i \in 1..Len(calls) : fs[i] \in FailPoints(calls[i])}

RECURSIVE EventsOf(_, _)
EventsOf(calls, fs) ==
    IF calls = <<>> THEN <<>>
    ELSE Outcome(Head(calls), Head(fs)).events \o EventsOf(Tail(calls), Tail(fs))

\* retry_action: result.increment_retry() and the adjustment of the action.
Adjust(n) ==
    /\ mpc = "adjust"
    /\ action_result' = IncrementRetry(action_result)
    /\ LET calls == RetryCalls(ActionAt(clean_action.a, idx), parsed_analysis) IN
       \E fs \in FailVectors(calls, n) :
           effects' = effects \o Tagged(EventsOf(calls, fs), idx)
    /\ mpc' = "reverify"
    /\ UNCHANGED <<shared, console, disk, instruction, task_state,
                   clean_analysis, parsed_analysis, clean_action, idx,
                   outcomes, awaiting, pending, resumed, holder>>

\* A second verification given an analysis made after the adjustment, one
\* that shows the window the action names.
ReverifiedOnFresh(analysis_json) == AnalysisWith(WindowChrome)

\* The analysis the second verify_action is given: the analysis_json that
\* retry_action received, made before the action ran.
ReverifiedOn(analysis_json) == analysis_json

\* retry_action: result = verify_action(...) after the adjustment; return.
M_Reverify ==
    /\ mpc = "reverify"
    /\ LET action == ActionAt(clean_action.a, idx)
           v == VerifyAction(action, ReverifiedOn(parsed_analysis))
       IN  IF v.panicked THEN Panic
           ELSE
           /\ task_state' = PushVerified(task_state, v)
           /\ action_result' = v.result
           /\ effects' = effects \o Tagged(<<VerifyEv>>, idx)
           /\ outcomes' = Append(outcomes, OutcomeOf(action, v.result, "retry"))
           /\ mpc' = "check"
           /\ UNCHANGED <<shared, console, disk, instruction, clean_analysis,
                          parsed_analysis, clean_action, idx, awaiting,
                          pending, resumed, holder>>

\* The check of the result: a failed result carrying 3 retries pauses the
\* task, saves it, sleeps 5 s and breaks; otherwise the loop goes on.
M_Check ==
    /\ mpc = "check"
    /\ IF TooManyRetries(action_result)
       THEN /\ task_state' = [task_state EXCEPT !.status = "paused"]
            /\ disk' = SaveTaskState(task_state')
            /\ effects' = effects \o Tagged(<<SleepEv(5000)>>, idx)
            /\ mpc' = "iter_end"
            /\ UNCHANGED idx
       ELSE /\ idx' = idx + 1
            /\ mpc' = "for_head"
            /\ UNCHANGED <<task_state, disk, effects>>
    /\ UNCHANGED <<shared, console, instruction, clean_analysis,
                   parsed_analysis, clean_action, action_result, outcomes,
                   awaiting, pending, resumed, holder>>

\* The end of the loop body: sleep 500 ms, back to the loop condition.
M_IterEnd ==
    /\ mpc = "iter_end"
    /\ mpc' = "while"
    /\ DropLocals
    /\ UNCHANGED <<shared, console, disk, awaiting, pending, resumed, holder>>

\* input_handle.join().unwrap(); Ok(())
M_Join ==
    /\ mpc = "join"
    /\ cpc = "exited"
    /\ mpc' = "terminated"
    /\ UNCHANGED <<shared, console, disk, locals, history>>

\* The steps of the main thread that draw no answer of the LLM.
MainSteps ==
    \/ M_While \/ M_CheckIdle \/ M_Capture \/ M_ReadInstruction
    \/ M_LoadState \/ M_SelfInstruction \/ M_Validate \/ M_ForHead
    \/ M_Verify \/ M_Reverify \/ M_Check \/ M_IterEnd

\* The main thread with the inputs of Spec.
MainNext ==
    \/ MainSteps
    \/ M_Join
    \/ AnalysisRequest(TextsOf(CoreAnalyses))
    \/ PlanRequest(PlanTexts(CoreActions, MaxPlanLen))
    \/ Dispatch(MaxFailPoint)
    \/ Adjust(MaxFailPoint)

Next == ConsoleNext \/ MainNext

Spec == Init /\ [][Next]_vars

\* The scheduler runs each thread that can take a step; the user may stop
\* typing, so a read_line need never return.
MainNextLive ==
    \/ MainSteps
    \/ M_Join
    \/ AnalysisRequest(TextsOf(CoreAnalyses))
    \/ PlanRequest(PlanTexts({FocusAlt, DoneOk}, MaxLivePlanLen))
    \/ Dispatch(MaxFailPoint)
    \/ Adjust(MaxFailPoint)

NextLive == ConsoleNext \/ MainNextLive

LiveSpec ==
    /\ Init
    /\ [][NextLive]_vars
    /\ WF_vars(MainNextLive)
    /\ WF_vars(C_While)
    /\ WF_vars(C_SetIdle)

\* The main thread running iterations on the first instruction while the
\* console thread waits in read_line for a line that does not come.
InitExec ==
    /\ should_continue = TRUE
    /\ current_instruction = Trim(LineGoPadded)
    /\ is_idle = FALSE
    /\ cpc = "read"
    /\ last_line = NoLine
    /\ mpc = "while"
    /\ disk = NoFile
    /\ LocalsUnset
    /\ awaiting = FALSE
    /\ pending = "none"
    /\ resumed = "no"
    /\ holder = AllFree

NextExec ==
    \/ MainSteps
    \/ AnalysisRequest(TextsOf(WideAnalyses))
    \/ PlanRequest(PlanTexts(WideActions, MaxExecPlanLen))
    \/ Dispatch(MaxExecFailPoint)
    \/ Adjust(MaxExecFailPoint)

SpecExec == InitExec /\ [][NextExec]_vars

\* The main thread running iterations whose analysis answers are texts that
\* may not parse, each followed by a plan of pointer moves.
MaxTextLen == 4

RawTexts == {RawText(lex) : lex \in SeqsUpTo(Lexemes, MaxTextLen)}

NextParse ==
    \/ MainSteps
    \/ AnalysisRequest(RawTexts)
    \/ PlanRequest(PlanTexts({MoveOk}, MaxExecPlanLen))
    \/ Dispatch(MaxFailPoint)
    \/ Adjust(MaxFailPoint)

SpecParse == InitExec /\ [][NextParse]_vars

\* ------------------------------------------------ TaskState on its own
\* One TaskState, the calls of update on it, and its file: save_task_state
\* and load_task_state on one iteration directory. The threads of main take
\* no part.
InitTask ==
    /\ should_continue = TRUE
    /\ current_instruction = EmptyString
    /\ is_idle = TRUE
    /\ cpc = "unspawned"
    /\ last_line = NoLine
    /\ mpc = "task"
    /\ disk = NoFile
    /\ instruction = EmptyString
    /\ task_state \in TaskStates
    /\ clean_analysis = NoText
    /\ parsed_analysis = JNull
    /\ clean_action = Malformed
    /\ idx = 0
    /\ action_result = NoResult
    /\ effects = <<>>
    /\ outcomes = <<>>
    /\ awaiting = FALSE
    /\ pending = "none"
    /\ resumed = "no"
    /\ holder = AllFree

\* task_state.update(analysis, actions); idx counts the calls.
T_Update(analyses, plans) ==
    /\ mpc = "task"
    /\ idx < MaxUpdates
    /\ \E analysis \in analyses, actions \in plans :
         IF UpdatePanics(analysis) THEN Panic
         ELSE /\ task_state' = Update(task_state, analysis, actions)
              /\ idx' = idx + 1
              /\ UNCHANGED <<shared, console, mpc, disk, instruction,
                             clean_analysis, parsed_analysis, clean_action,
                             action_result, history>>

\* save_task_state(iteration_dir, &task_state)
T_Save ==
    /\ mpc = "task"
    /\ disk' = SaveTaskState(task_state)
    /\ disk' # disk
    /\ UNCHANGED <<shared, console, mpc, locals, history>>

\* task_state = load_task_state(iteration_dir)
T_Load ==
    /\ mpc = "task"
    /\ task_state' = LoadTaskState(disk)
    /\ task_state' # task_state
    /\ UNCHANGED <<shared, console, mpc, disk, instruction, clean_analysis,
                   parsed_analysis, clean_action, idx, action_result, history>>

NextTask == T_Update(AnalysisTexts, ActionTexts) \/ T_Save \/ T_Load

SpecTask == InitTask /\ [][NextTask]_vars

\* -------------------------------------------------------------- properties
\* The plan of the iteration and the last entry of `outcomes`.
Plan == clean_action.a
LastOutcome == outcomes[Len(outcomes)]

\* The loop over the plan has ended, or stands between two actions.
BetweenActions == mpc \in {"for_head", "iter_end"}

\* C1: whenever the verification of a dispatched action still fails after
\* retry_action has run, the result it returned carries retry_count = 3, the
\* status of the TaskState is "paused" and that state is the one on disk,
\* before the loop goes on.
RetryExhaustionPauses ==
    (BetweenActions /\ outcomes # <<>> /\ LastOutcome.via = "retry"
        /\ ~LastOutcome.result.success)
    => /\ LastOutcome.result.retry_count = RetryCeiling
       /\ task_state.status = "paused"
       /\ LoadTaskState(disk).status = "paused"

\* C2: no ActionResult of the loop carries a retry_count above 3: not the one
\* in hand, not one handed back by the match or by retry_action, not one
\* verify_action pushed on the TaskState; nor does the one the library's
\* retry_action returns for the action and analysis in hand.
RetryCountBounded ==
    /\ action_result.retry_count <= RetryCeiling
    /\ \A i \in 1..Len(outcomes) :
           outcomes[i].result.retry_count <= RetryCeiling
    /\ \A i \in 1..Len(task_state.action_results) :
           task_state.action_results[i].retry_count <= RetryCeiling
    /\ mpc \in {"verify", "reverify"}
       => LibRetryAction(ActionAt(Plan, idx), parsed_analysis)
              .result.retry_count <= RetryCeiling

RetryCounted == mpc = "reverify" /\ action_result.retry_count = 1

\* Whether field f of the action has the JSON type its arm asks for.
FieldOk(action, f) ==
    CASE f \in {"x", "y", "ms"} -> IsInt(Get(action, f))
      [] f = "keys" -> IsArr(Get(action, f))
      [] OTHER -> IsStr(Get(action, f))

LacksRequired(action) ==
    \E f \in RequiredFields(ActionTag(action)) : ~FieldOk(action, f)

\* The message of the failed result, per kind of action.
MissingMessage(action_type) ==
    CASE action_type = "window_focus" -> "Missing parameters"
      [] action_type = "mouse_move" -> "Missing coordinates"
      [] action_type = "mouse_click" -> "Missing button"
      [] action_type = "key_press" -> "Missing key"
      [] action_type = "key_combination" -> "Missing keys"
      [] action_type = "text_input" -> "Missing text"
      [] action_type = "wait" -> "Missing ms"
      [] action_type = "task_done" -> "Missing reason"

\* The message of the library's execute_action, per kind of action.
LibMissingMessage(action_type) ==
    CASE action_type = "window_focus" ->
            "Missing parameters for window_focus action"
      [] action_type = "mouse_move" ->
            "Missing coordinates for mouse_move action"
      [] action_type = "mouse_click" -> "Missing button for mouse_click action"
      [] action_type = "key_press" -> "Missing key for key_press action"
      [] action_type = "key_combination" ->
            "Missing keys for key_combination action"
      [] action_type = "text_input" -> "Missing text for text_input action"
      [] action_type = "wait" -> "Missing ms for wait action"
      [] action_type = "task_done" -> "Missing reason for task_done action"

\* What the library's execute_action does with the action, started on a
\* TaskState that holds the analysis in hand.
LibRun(action) ==
    LibExecuteAction(action,
        [LibTaskStateNew EXCEPT !.analysis = parsed_analysis], 0)

FailedByError(i) == outcomes[i].via = "match" /\ ~outcomes[i].result.success

PlanOrder ==
    /\ outcomes # <<>> => ParsesAsArray(clean_action)
    /\ \A i \in 1..Len(outcomes) : outcomes[i].action = Plan[i]
    /\ \A p \in 1..Len(effects) :
           /\ effects[p].idx <= Len(outcomes) + 1
           /\ \A q \in p..Len(effects) : effects[p].idx <= effects[q].idx
    /\ \A p \in 1..Len(effects) :
           (IsInjection(effects[p].ev) /\ effects[p].idx > Len(outcomes))
           => mpc \in {"verify", "adjust", "reverify"}
    /\ \A i \in 1..Len(outcomes) :
           outcomes[i].via = "retry"
           => \E p \in 1..Len(effects) :
                  effects[p].idx = i /\ effects[p].ev = VerifyEv

SecondActionInjected ==
    /\ Len(outcomes) = 2
    /\ \E p \in 1..Len(effects) : effects[p].idx = 1 /\ effects[p].ev = VerifyEv
    /\ \E q \in 1..Len(effects) :
           effects[q].idx = 2 /\ IsInjection(effects[q].ev)

InstructionSeenAtNextPoll ==
    (mpc = "check_idle" /\ pending # "none") => ~is_idle

\* C9: on pause, resume and help the console thread leaves the continue
\* flag, the shared instruction and the idle flag as they were; on stop it
\* changes the continue flag and neither of the other two.
CommandsFrame ==
    [][(cpc = "read" /\ cpc' # cpc)
       => /\ Trim(last_line') \in {CmdPause, CmdResume, CmdHelp}
             => UNCHANGED shared
          /\ Trim(last_line') = CmdStop
             => /\ should_continue' = FALSE
                /\ UNCHANGED <<current_instruction, is_idle>>]_vars

PauseRead == cpc = "while" /\ last_line = LinePause /\ should_continue

\* C10: from the task_done arm (status task_done, idle flag true) until the
\* console thread has delivered an instruction, the idle flag stays true
\* and the main loop starts no iteration: no analysis request, no
\* action-plan request, no self-instruction request.
NoRequestWhileAwaiting ==
    awaiting
    => /\ is_idle
       /\ mpc \notin {"capture", "read_instruction", "load", "analysis",
                      "plan", "self_instruction", "validate"}

IdleAfterTaskDone ==
    /\ awaiting
    /\ mpc = "check_idle"
    /\ LoadTaskState(disk).status = "task_done"

\* C11: when an instruction has come after task_done, the iteration that
\* follows works on TaskState::new(instruction): status in_progress, attempts
\* 0, no feedback, no action_results, and the instruction it has read.
ResetBoundToInstruction ==
    (mpc = "analysis" /\ resumed = "loaded" /\ instruction # EmptyString)
    => task_state = TaskStateNew(instruction)

\* Whether the analysis names an active window that contains the title of
\* the action, letter case set aside.
WindowShowsTitle(action, analysis) ==
    LET w == Get(Get(analysis, "state"), "active_window") IN
    /\ IsStr(w)
    /\ Contains(ToLowercase(w.s), ToLowercase(Get(action, "title").s))

\* C12: for a window_focus with a title and any analysis, verify_action (of
\* the driver and of the library) returns a result, successful exactly when
\* state.active_window is a string containing the title case-insensitively;
\* it never ends the process, whatever active_window is.
WindowFocusVerifiedByTitle ==
    /\ mpc # "panicked"
    /\ parsed_analysis # JNull
       => \A a \in WideActions :
            (ActionTag(a) = "window_focus" /\ IsStr(Get(a, "title")))
            => /\ ~VerifyAction(a, parsed_analysis).panicked
               /\ VerifyAction(a, parsed_analysis).result.success
                  <=> WindowShowsTitle(a, parsed_analysis)
               /\ ~LibVerifyAction(a, parsed_analysis).panicked
               /\ LibVerifyAction(a, parsed_analysis).result.success
                  <=> WindowShowsTitle(a, parsed_analysis)

\* The kinds of action C13 is about.
UnconditionalKinds ==
    {"mouse_move", "mouse_click", "key_press", "key_combination",
     "text_input", "wait", "task_done"}

\* C13 as stated: an action of one of these kinds is verified successfully
\* whatever the analysis holds.
VerifiedWhateverAnalysis ==
    parsed_analysis # JNull
    => \A a \in WideActions :
         ActionTag(a) \in UnconditionalKinds
         => /\ VerifyAction(a, parsed_analysis).result.success
            /\ LibVerifyAction(a, parsed_analysis).result.success

\* C13: an action of one of these kinds is verified successfully exactly
\* when the verification is not skipped: the library needs the `state`
\* object of the analysis, the driver the `state` object and the ui_elements
\* array; nothing else of the analysis matters, and the results the driver
\* gets back from retry_action agree.
VerifiedWhenAnalysisHasState ==
    /\ parsed_analysis # JNull
       => \A a \in WideActions :
            ActionTag(a) \in UnconditionalKinds
            => /\ ~VerifyAction(a, parsed_analysis).panicked
               /\ VerifyAction(a, parsed_analysis).result.success
                  <=> (/\ IsObj(Get(parsed_analysis, "state"))
                       /\ IsArr(Get(parsed_analysis, "ui_elements")))
               /\ ~LibVerifyAction(a, parsed_analysis).panicked
               /\ LibVerifyAction(a, parsed_analysis).result.success
                  <=> IsObj(Get(parsed_analysis, "state"))
    /\ \A i \in 1..Len(outcomes) :
         (/\ outcomes[i].via = "retry"
          /\ ActionTag(outcomes[i].action) \in UnconditionalKinds
          /\ IsObj(Get(parsed_analysis, "state"))
          /\ IsArr(Get(parsed_analysis, "ui_elements")))
         => outcomes[i].result.success

KeyboardActionVerified ==
    /\ mpc = "check"
    /\ outcomes # <<>>
    /\ outcomes[Len(outcomes)].via = "retry"
    /\ ActionTag(outcomes[Len(outcomes)].action) = "key_combination"
    /\ action_result.success
    /\ "active_window" \notin DOMAIN Get(parsed_analysis, "state").o

\* C14 as stated: without a `state` object in the analysis the verification
\* returns the ActionResult as ActionResult::new made it and logs nothing.
NoStateReturnsDefault ==
    (parsed_analysis # JNull /\ ~IsObj(Get(parsed_analysis, "state")))
    => \A a \in WideActions :
         /\ VerifyAction(a, parsed_analysis).result
                = ActionResultNew(ActionTag(a))
         /\ ~VerifyAction(a, parsed_analysis).pushed
         /\ LibVerifyAction(a, parsed_analysis).result
                = LibActionResultNew(ActionTag(a))

\* C14: without a `state` object in the analysis the verification is
\* skipped: the result has success = false and retry_count = 0 and nothing
\* is appended to task_state.action_results. The library returns the result
\* unmodified, with no error message; the driver's verify_action sets the
\* message "No state information found in analysis" (or, when the analysis
\* has no ui_elements array either, "No UI elements found in analysis").
NoStateSkipsVerification ==
    /\ []((parsed_analysis # JNull /\ ~IsObj(Get(parsed_analysis, "state")))
          => \A a \in WideActions :
               LET v == VerifyAction(a, parsed_analysis) IN
               /\ ~v.panicked /\ ~v.pushed
               /\ ~v.result.success /\ v.result.retry_count = 0
               /\ v.result.action_type = ActionTag(a)
               /\ v.result.error_message =
                      IF IsArr(Get(parsed_analysis, "ui_elements"))
                      THEN "No state information found in analysis"
                      ELSE "No UI elements found in analysis"
               /\ LibVerifyAction(a, parsed_analysis)
                      = [result |-> LibActionResultNew(ActionTag(a)),
                         panicked |-> FALSE])
    /\ [][(mpc \in {"verify", "reverify"}
           /\ ~IsObj(Get(parsed_analysis, "state")))
          => task_state'.action_results = task_state.action_results]_vars

VerificationSkipped ==
    /\ mpc = "check"
    /\ ~IsObj(Get(parsed_analysis, "state"))
    /\ outcomes # <<>>
    /\ outcomes[Len(outcomes)].via = "retry"
    /\ action_result.error_message = "No state information found in analysis"
    /\ task_state.action_results = <<>>

\* The longest prefix of a feedback entry that holds no colon.
BeforeColon(f) ==
    LET n == CHOOSE n \in 0..Len(f) :
                 /\ \A i \in 1..n : f[i] # ":"
                 /\ (n = Len(f) \/ f[n + 1] = ":")
    IN  [i \in 1..n |-> f[i]]

\* The three most recent feedback entries exist and carry one label.
SameRecentLabels(feedback) ==
    LET n == Len(feedback) IN
    /\ n >= 3
    /\ BeforeColon(feedback[n]) = BeforeColon(feedback[n - 1])
    /\ BeforeColon(feedback[n - 1]) = BeforeColon(feedback[n - 2])

\* C15: for a TaskState whose three most recent feedback labels are not all
\* identical, should_pause is true with attempts = 11 and false with
\* attempts = 10, all else equal.
ShouldPauseBoundary ==
    (mpc = "task" /\ ~SameRecentLabels(task_state.feedback))
    => /\ ShouldPause([task_state EXCEPT !.attempts = 11])
       /\ ~ShouldPause([task_state EXCEPT !.attempts = 10])

EleventhAttempt ==
    /\ mpc = "task" /\ idx = 1
    /\ task_state.attempts = 11
    /\ Len(task_state.feedback) >= 3
    /\ ~SameRecentLabels(task_state.feedback)
    /\ ShouldPause(task_state)

\* C16 as stated: should_pause is true when the three most recent feedback
\* entries carry one label, whatever attempts is, and false when they do not
\* and attempts <= 10.
RepeatedLabelsAlwaysPause ==
    mpc = "task"
    => /\ SameRecentLabels(task_state.feedback) => ShouldPause(task_state)
       /\ (~SameRecentLabels(task_state.feedback) /\ task_state.attempts <= 10)
          => ~ShouldPause(task_state)

\* C16: with attempts <= 10, should_pause is true exactly when attempts > 3
\* and the three most recent feedback entries carry one label (the text
\* before the first colon); with three or fewer attempts the labels are not
\* looked at.
RepeatedLabelsPauseAfterThree ==
    (mpc = "task" /\ task_state.attempts <= 10)
    => (ShouldPause(task_state)
        <=> (task_state.attempts > 3
             /\ SameRecentLabels(task_state.feedback)))

RepeatedLabelPaused ==
    /\ mpc = "task"
    /\ task_state.attempts = 4
    /\ ShouldPause(task_state)
    /\ task_state.feedback[Len(task_state.feedback)]
           # task_state.feedback[Len(task_state.feedback) - 1]

\* C17: is_complete is false with fewer than 2 attempts; from 2 attempts on
\* it is true exactly when every success criterion occurs in the analysis
\* text, the challenges array of the analysis, if the text is JSON and has
\* one, is empty, and last_action is not empty.
IsCompleteCriteria ==
    mpc = "task"
    => \A analysis \in AnalysisTexts :
         LET challenges == IF analysis.json = Malformed THEN JNull
                           ELSE Get(analysis.json, "challenges")
         IN  IsComplete(task_state, analysis)
             <=> /\ task_state.attempts >= 2
                 /\ \A i \in 1..Len(task_state.success_criteria) :
                        task_state.success_criteria[i] \in analysis.phrases
                 /\ ~(IsArr(challenges) /\ challenges.a # <<>>)
                 /\ task_state.last_action # ""

CompleteAtSecondAttempt ==
    /\ mpc = "task" /\ idx = 1
    /\ task_state.attempts = 2
    /\ \E analysis \in AnalysisTexts :
         analysis.json # Malformed /\ IsComplete(task_state, analysis)
    /\ \E analysis \in AnalysisTexts :
         analysis.phrases = AllCriteria /\ ~IsComplete(task_state, analysis)

\* C18: the execution of an action of a plan appends exactly one
\* ActionResult to the result log and leaves attempts as it was. In the
\* driver: the arm that ends without retry_action appends one; the first
\* verification of retry_action appends one and the adjustment and second
\* verification none; no step of the execution changes attempts. In the
\* library: execute_action leaves one more result in the log, and adding a
\* result to a TaskState leaves its attempts as they were.
ExecutionLogsOneResult ==
    /\ [][/\ (mpc = "dispatch" /\ mpc' = "check")
             => Len(task_state'.action_results)
                    = Len(task_state.action_results) + 1
          /\ (mpc = "verify" /\ mpc' # "panicked")
             => Len(task_state'.action_results)
                    = Len(task_state.action_results) + 1
          /\ mpc \in {"adjust", "reverify"}
             => Len(task_state'.action_results)
                    = Len(task_state.action_results)
          /\ mpc \in {"dispatch", "verify", "adjust", "reverify"}
             => task_state'.attempts = task_state.attempts]_vars
    /\ [](parsed_analysis # JNull
          => \A a \in WideActions :
               Len(LibRun(a).task_state.action_results) = 1)
    /\ [](mpc = "check"
          => AddActionResult(task_state, action_result).attempts
                 = task_state.attempts)

\* Whether p is a prefix of s.
IsPrefix(p, s) == Len(p) <= Len(s) /\ SubSeq(s, 1, Len(p)) = p

\* C19: every call of update returns, and the TaskState it leaves has one
\* more attempt; the tag of the last action of the plan as last_action (the
\* old last_action when the plan is no array, is empty, or ends in an action
\* without a string tag); the context and the window title of the analysis
\* in memory; and the old feedback followed by the strings of challenges.
UpdateFoldsAnalysis ==
    /\ mpc # "panicked"
    /\ mpc = "task"
       => \A analysis \in AnalysisTexts, actions \in ActionTexts :
            LET u == Update(task_state, analysis, actions)
                json == IF analysis.json = Malformed THEN JNull
                        ELSE analysis.json
                tagged == /\ actions.t = "arr" /\ actions.a # <<>>
                          /\ IsStr(Get(actions.a[Len(actions.a)], "action"))
            IN  /\ ~UpdatePanics(analysis)
                /\ u.attempts = task_state.attempts + 1
                /\ u.last_action =
                       IF tagged
                       THEN Get(actions.a[Len(actions.a)], "action").s
                       ELSE task_state.last_action
                /\ IsStr(Get(json, "context"))
                   => u.memory["last_context"] = Get(json, "context").s
                /\ IsStr(Get(Get(json, "state"), "window_title"))
                   => u.memory["last_window"]
                          = Get(Get(json, "state"), "window_title").s
                /\ IsPrefix(task_state.feedback, u.feedback)
                /\ IsArr(Get(json, "challenges"))
                   => SubSeq(u.feedback, Len(task_state.feedback) + 1,
                             Len(u.feedback))
                          = ChallengeStrings(Get(json, "challenges").a)

Appended == SubSeq(effects', Len(effects) + 1, Len(effects'))

\* The action the loop stands at.
CurrentAction == ActionAt(clean_action.a, idx)

\* The centres of the bounding boxes of the ui_elements of an analysis.
Centers(analysis_json) ==
    LET elements == Get(analysis_json, "ui_elements").a IN
    {<<RustDiv(Get(elements[i], "coords").a[1].n
               + Get(elements[i], "coords").a[3].n, 2),
       RustDiv(Get(elements[i], "coords").a[2].n
               + Get(elements[i], "coords").a[4].n, 2)>> :
        i \in {j \in 1..Len(elements) : HasCoords(elements[j])}}

SquaredDistance(c, x, y) ==
    (c[1] - x) * (c[1] - x) + (c[2] - y) * (c[2] - y)

\* The centres no other centre is nearer to (x, y) than.
Nearest(analysis_json, x, y) ==
    {c \in Centers(analysis_json) :
        \A d \in Centers(analysis_json) :
            SquaredDistance(c, x, y) <= SquaredDistance(d, x, y)}

\* The calls a retry that snaps `action` to the centre c makes.
SnappedCalls(action, c) ==
    <<MoveTo(c[1], c[2])>> \o
    (IF ActionTag(action) = "mouse_click"
     THEN <<Click(Get(action, "button").s)>> ELSE <<>>)

Closers(n) == UNION {[1..k -> {CB, CA}] : k \in 1..n}

\* The values a text that does not parse would have with its missing
\* trailing closers.
Completions(text) ==
    {FromStr(RawText(text.lexemes \o c)) : c \in Closers(MaxTextLen)}
    \ {Malformed}

\* C22: the analysis request never ends the run; a text that parses gives
\* its value; a text that does not parse but would with closing braces and
\* brackets appended gives the value it then has; every other text gives the
\* canned error analysis.
RepairOrFallback ==
    /\ mpc # "panicked"
    /\ mpc = "plan"
       => IF FromStr(clean_analysis) # Malformed
          THEN parsed_analysis = FromStr(clean_analysis)
          ELSE IF Completions(clean_analysis) # {}
          THEN parsed_analysis \in Completions(clean_analysis)
          ELSE parsed_analysis = CannedAnalysis

\* ------------------------------------------------------- the plan text
\* The plan text of the iteration is no JSON array.
PlanUnparsed == mpc = "validate" /\ clean_action.t # "arr"

\* C23: when the plan text is no JSON array, the iteration has made no call
\* of the injection layer and run no action when it comes to the parse, the
\* TaskState has the status it was saved with, and the step of the main
\* thread from there is back to the loop condition, with no call made and
\* the saved TaskState as it was.
UnparsedPlanSkipsExecution ==
    /\ [](PlanUnparsed
          => /\ effects = <<>>
             /\ outcomes = <<>>
             /\ LoadTaskState(disk).status = task_state.status)
    /\ [][(PlanUnparsed /\ mpc' # mpc)
          => /\ mpc' = "while"
             /\ effects' = <<>>
             /\ outcomes' = <<>>
             /\ disk' = disk]_vars

\* The plan request was answered with a text that is no JSON at all, after
\* the self-instruction was stored.
PlanTextUnparsed ==
    /\ PlanUnparsed
    /\ clean_action = Malformed
    /\ current_instruction \in GeneratedInstructions

\* ------------------------------------------------------ the result log
\* The library's execute_action on `action` when enigo fails at failAt,
\* started on a TaskState that holds the analysis in hand.
LibRunFailing(action, failAt) ==
    LibExecuteAction(action,
        [LibTaskStateNew EXCEPT !.analysis = parsed_analysis], failAt)

\* C24: the execution of an action leaves the result log one longer than it
\* found it, with the ActionResult of the execution as its last entry. In
\* the driver: when the match hands the result to the check after the loop,
\* the log is the log from before the action with that result appended. In
\* the library: execute_action returns, whatever enigo answers, with one
\* result in the log of a new TaskState, the one it returns.
EveryExecutionLogged ==
    /\ []((mpc = "check" /\ outcomes # <<>>)
          => /\ task_state.action_results # <<>>
             /\ task_state.action_results[Len(task_state.action_results)]
                    = action_result)
    /\ [][(mpc = "dispatch" /\ mpc' = "check")
          => task_state'.action_results
                 = Append(task_state.action_results, action_result')]_vars
    /\ [][(mpc = "verify" /\ mpc' = "adjust")
          => Len(task_state'.action_results)
                 = Len(task_state.action_results)]_vars
    /\ [][(mpc \in {"verify", "reverify"} /\ mpc' = "check")
          => task_state'.action_results
                 = Append(task_state.action_results, action_result')]_vars
    /\ [](parsed_analysis # JNull
          => \A a \in WideActions : \A failAt \in LibFailPoints(a) :
               LET run == LibRunFailing(a, failAt) IN
               /\ ~run.panicked
               /\ run.task_state.action_results = <<run.result>>)

\* ------------------------------------------------- injection failures
\* C25: when enigo answers Err to a call made for an action, the execution
\* ends with a failed ActionResult that carries a message, and not with a
\* panic: in the match of the driver for every point at which the arm of
\* the action at hand can fail, and in the library's execute_action for
\* every action and every point at which its arm can fail.
InjectionErrorsReported ==
    /\ mpc = "dispatch"
       => \A failAt \in ArmFailPoints(Execute(CurrentAction),
                                      MaxExecFailPoint) \ {0} :
            LET d == RunArm(CurrentAction, failAt) IN
            /\ d.finished
            /\ ~d.result.success
            /\ d.result.error_message # NoError
    /\ parsed_analysis # JNull
       => \A a \in WideActions : \A failAt \in LibFailPoints(a) \ {0} :
            LET run == LibRunFailing(a, failAt) IN
            /\ ~run.panicked
            /\ ~run.result.success
            /\ run.result.error_message # NoError

\* ------------------------------------------------------ key combinations
\* Key lists of modifiers followed by a letter.
Chords ==
    {<<"t">>, <<"control", "t">>, <<"control", "shift", "t">>,
     <<"alt", "control", "shift", "c">>}

\* The enigo calls among the steps, in their order.
RECURSIVE Injections(_)
Injections(steps) ==
    IF steps = <<>> THEN <<>>
    ELSE (IF IsInjection(Head(steps)) THEN <<Head(steps)>> ELSE <<>>)
         \o Injections(Tail(steps))

\* Press k1..k(n-1) in the given order, type kn, release k(n-1)..k1.
PressTypeRelease(keys) ==
    LET n == Len(keys) IN
    [i \in 1..(n - 1) |-> KeyEv(ModifierKey(keys[i]), "Press")]
    \o <<TextEv(keys[n])>>
    \o [i \in 1..(n - 1) |-> KeyEv(ModifierKey(keys[n - i]), "Release")]

\* C26: for a key_combination whose keys are modifiers followed by a letter,
\* the enigo calls of Keyboard::press_key_combination, and those of the
\* library's execute_action, are the presses of the modifiers in the given
\* order, the letter typed, and the releases of the modifiers in the reverse
\* order; for the empty key list both end in a failed result and make no
\* call.
CombinationPressTypeRelease ==
    parsed_analysis # JNull
    => /\ \A keys \in Chords :
            /\ PressKeyCombination(keys).err = NoError
            /\ Injections(PressKeyCombination(keys).steps)
                   = PressTypeRelease(keys)
            /\ ~LibRun(ComboOf(keys)).panicked
            /\ Injections(LibRun(ComboOf(keys)).events)
                   = PressTypeRelease(keys)
       /\ PressKeyCombination(<<>>).err # NoError
       /\ PressKeyCombination(<<>>).steps = <<>>
       /\ RunArm(ComboOf(<<>>), 0).finished
       /\ ~RunArm(ComboOf(<<>>), 0).result.success
       /\ RunArm(ComboOf(<<>>), 0).events = <<>>
       /\ ~LibRun(ComboOf(<<>>)).result.success
       /\ Injections(LibRun(ComboOf(<<>>)).events) = <<>>

\* ------------------------------------------------- values outside the vocabulary
\* A click with a button that is none of left, right, middle, and a key
\* press with a key that is none of return, enter, tab, escape.
OutOfVocabulary ==
    {Retyped(ClickLeft, "button", JS("side")),
     Retyped(ClickAt, "button", JS("")),
     Retyped(KeyTab, "key", JS("f1")),
     Retyped(KeyTab, "key", JS("space"))}

\* C27: a mouse_click with an unknown button and a key_press with an unknown
\* key end with a failed ActionResult and without a call of the injection
\* layer, in the match of the driver and in the library's execute_action.
UnknownValueFails ==
    parsed_analysis # JNull
    => \A a \in OutOfVocabulary :
         /\ RunArm(a, 0).finished
         /\ ~RunArm(a, 0).result.success
         /\ Injections(RunArm(a, 0).events) = <<>>
         /\ ~LibRun(a).panicked
         /\ ~LibRun(a).result.success
         /\ Injections(LibRun(a).events) = <<>>

\* ------------------------------------------------- the focus method
\* window_focus actions: with a known method, with another one, and with a
\* required field absent or of another type.
FocusActions == {a \in WideActions : ActionTag(a) = "window_focus"}

UnknownMethod(a) ==
    ~LacksRequired(a) /\ Get(a, "method").s \notin {"alt_tab", "super_tab"}

\* C28: a window_focus ends in a failed result exactly when a required field
\* is absent; one with title, class and a method that is neither alt_tab nor
\* super_tab makes no call of the injection layer and is not failed, in the
\* match of the driver (which hands it to the verification) and in the
\* library's execute_action (which marks it successful).
UnknownMethodSucceeds ==
    parsed_analysis # JNull
    => \A a \in FocusActions :
         /\ (RunArm(a, 0).finished /\ ~RunArm(a, 0).result.success)
                <=> LacksRequired(a)
         /\ ~LibRun(a).result.success <=> LacksRequired(a)
         /\ UnknownMethod(a)
            => /\ Injections(RunArm(a, 0).events) = <<>>
               /\ Injections(LibRun(a).events) = <<>>

\* ------------------------------------------------------------ task_done
\* The action at hand is a task_done; with a string as its reason.
AtTaskDone == mpc = "dispatch" /\ ActionTag(CurrentAction) = "task_done"
HasReason(a) == IsStr(Get(a, "reason"))

\* C29 as stated: every task_done action, whatever it carries, is executed
\* with a successful result and leaves the TaskState with status task_done.
TaskDoneAlwaysSucceeds ==
    /\ [][AtTaskDone
          => /\ action_result'.success
             /\ task_state'.status = "task_done"]_vars
    /\ [](parsed_analysis # JNull
          => \A a \in WideActions :
               ActionTag(a) = "task_done"
               => /\ LibRun(a).result.success
                  /\ LibRun(a).task_state.status = "task_done")

\* C29: a task_done action whose reason is a string is executed with a
\* successful result and leaves the TaskState with status task_done, in the
\* driver (where that state is also the one saved) and in the library; a
\* task_done action without such a reason is executed with a failed result
\* and leaves the status as it was.
TaskDoneWithReasonSucceeds ==
    /\ [][AtTaskDone
          => IF HasReason(CurrentAction)
             THEN /\ action_result'.success
                  /\ action_result'.action_type = "task_done"
                  /\ task_state'.status = "task_done"
                  /\ LoadTaskState(disk').status = "task_done"
             ELSE /\ ~action_result'.success
                  /\ task_state'.status = task_state.status]_vars
    /\ [](parsed_analysis # JNull
          => \A a \in WideActions :
               ActionTag(a) = "task_done"
               => IF HasReason(a)
                  THEN /\ LibRun(a).result.success
                       /\ LibRun(a).task_state.status = "task_done"
                  ELSE /\ ~LibRun(a).result.success
                       /\ LibRun(a).task_state.status = LibTaskStateNew.status)

\* A task_done with a reason has been executed.
TaskDoneExecuted ==
    /\ mpc = "check"
    /\ HasReason(CurrentAction)
    /\ action_result = Success(ActionResultNew("task_done"))
    /\ task_state.status = "task_done"

\* ------------------------------------------------- the counted retry
\* C30: retry_action counts one retry when it goes on to the adjustment, and
\* the result it returns after an adjustment carries at least one retry; the
\* library's retry_action returns a result with one retry counted.
RetryReturnsCounted ==
    /\ [][mpc = "adjust"
          => action_result'.retry_count = action_result.retry_count + 1]_vars
    /\ [][(mpc = "reverify" /\ mpc' = "check")
          => action_result'.retry_count >= 1]_vars
    /\ [](parsed_analysis # JNull
          => \A a \in WideActions :
               LibRetryAction(a, parsed_analysis).panicked
               \/ LibRetryAction(a, parsed_analysis).result.retry_count = 1)

\* ------------------------------------------------------------ the idle flag
\* The places of the main thread inside an iteration, after the poll.
InIteration ==
    mpc \in {"capture", "read_instruction", "load", "analysis", "plan",
             "self_instruction", "validate", "for_head", "dispatch",
             "verify", "adjust", "reverify", "check", "iter_end"}

\* C31 as stated: whenever the idle flag is true the main thread is outside
\* an iteration.
IdleMeansNoIteration == is_idle => ~InIteration

\* C31: a poll that reads the idle flag as true goes back to the loop
\* condition and changes nothing; the main thread is inside an iteration
\* with the flag true only after a task_done action of that iteration has
\* set it; and before the first instruction of the console nothing of an
\* iteration has happened.
IdlePollStartsNoIteration ==
    /\ []((is_idle /\ ~awaiting) => ~InIteration)
    /\ []((is_idle /\ InIteration)
          => \E k \in 1..Len(outcomes) :
               /\ ActionTag(outcomes[k].action) = "task_done"
               /\ outcomes[k].result.success)
    /\ [][(mpc = "check_idle" /\ is_idle /\ mpc' # mpc)
          => /\ mpc' = "while"
             /\ UNCHANGED <<shared, disk, locals, effects, outcomes>>]_vars

\* The main loop has polled the flag before any instruction was typed.
PolledWhileIdle ==
    /\ mpc = "check_idle"
    /\ is_idle
    /\ current_instruction = EmptyString
    /\ cpc = "read"
    /\ disk = NoFile

\* ------------------------------------------------- the retried focus
\* Press the modifier, click Tab, release the modifier.
Chord(modifier) ==
    <<KeyEv(modifier, "Press"), KeyEv("Tab", "Click"),
      KeyEv(modifier, "Release")>>

\* The wrapper call for the method the action does not name.
OtherChord(action) ==
    IF Get(action, "method").s = "alt_tab" THEN CmdTab ELSE AltTab

\* C32: the adjustment of a retried window_focus makes one call, cmd_tab
\* (Meta+Tab) for an action with method alt_tab and alt_tab (Alt+Tab) for
\* one with method super_tab; the events of the step are those of that call
\* as far as the injection layer answered it; and the second verification
\* is the step after it.
RetriedFocusTogglesChord ==
    /\ [][(mpc = "adjust" /\ ActionTag(CurrentAction) = "window_focus")
          => /\ Get(CurrentAction, "method").s \in {"alt_tab", "super_tab"}
             /\ \E fs \in FailVectors(<<OtherChord(CurrentAction)>>,
                                      MaxExecFailPoint) :
                  Appended = Tagged(EventsOf(<<OtherChord(CurrentAction)>>,
                                             fs), idx)
             /\ mpc' = "reverify"]_vars
    /\ [][mpc = "reverify"
          => (mpc' = "panicked" \/ Appended = Tagged(<<VerifyEv>>, idx))]_vars
    /\ [](Injections(CmdTab.steps) = Chord("Meta")
          /\ Injections(AltTab.steps) = Chord("Alt"))

\* A window_focus by super_tab has been retried with Alt+Tab, all of it
\* answered Ok.
RetriedWithAltTab ==
    /\ mpc = "reverify"
    /\ ActionTag(CurrentAction) = "window_focus"
    /\ Get(CurrentAction, "method").s = "super_tab"
    /\ Len(effects) >= Len(AltTab.steps)
    /\ SubSeq(effects, Len(effects) - Len(AltTab.steps) + 1, Len(effects))
           = Tagged(AltTab.steps, idx)

\* ------------------------------------------------- ties in the search
\* The positions in ui_elements of the elements with four integer coords,
\* and the centre of the box of the one at position i.
WithCoords(analysis_json) ==
    {i \in 1..Len(Get(analysis_json, "ui_elements").a) :
        LET coords == Get(Get(analysis_json, "ui_elements").a[i], "coords") IN
        /\ IsArr(coords)
        /\ Len(coords.a) >= 4
        /\ \A k \in 1..4 : IsInt(coords.a[k])}

CenterAt(analysis_json, i) ==
    LET c == Get(Get(analysis_json, "ui_elements").a[i], "coords").a IN
    <<RustDiv(c[1].n + c[3].n, 2), RustDiv(c[2].n + c[4].n, 2)>>

\* The first position, in the order of ui_elements, whose centre is at the
\* least squared distance of (x, y).
FirstNearest(analysis_json, x, y) ==
    CHOOSE i \in WithCoords(analysis_json) :
        \A j \in WithCoords(analysis_json) :
            LET di == SquaredDistance(CenterAt(analysis_json, i), x, y)
                dj == SquaredDistance(CenterAt(analysis_json, j), x, y)
            IN  di < dj \/ (di = dj /\ i <= j)

\* C33: the adjustment of a retried mouse action goes to the centre of the
\* first element of ui_elements, among those with four integer coords, that
\* is at the least squared distance of the target: a later element at the
\* same distance does not replace it, and elements without such coords take
\* no part.
FirstOfNearestWins ==
    [][(/\ mpc = "adjust" /\ mpc' = "reverify"
        /\ ActionTag(CurrentAction) \in {"mouse_move", "mouse_click"}
        /\ IsInt(Get(CurrentAction, "x")) /\ IsInt(Get(CurrentAction, "y"))
        /\ IsArr(Get(parsed_analysis, "ui_elements")))
       => IF WithCoords(parsed_analysis) = {}
          THEN Appended = <<>>
          ELSE LET first == FirstNearest(parsed_analysis,
                                         Get(CurrentAction, "x").n,
                                         Get(CurrentAction, "y").n)
                   calls == SnappedCalls(CurrentAction,
                                         CenterAt(parsed_analysis, first))
               IN  \E fs \in FailVectors(calls, MaxExecFailPoint) :
                     Appended = Tagged(EventsOf(calls, fs), idx)]_vars

\* A retried move to (200,200) went to the earlier of the two centres that
\* are nearest to it.
EarlierOfTiedChosen ==
    /\ mpc = "reverify"
    /\ CurrentAction = MoveOk
    /\ parsed_analysis = TiedElements
    /\ effects # <<>>
    /\ effects[Len(effects)].ev = MoveEv(190, 200)

\* -------------------------------------------- a typed instruction is run
\* The trimmed lines the console thread takes as instructions.
TypedInstructions ==
    {Trim(line) : line \in {l \in ConsoleLines : IsInstruction(Trim(l))}}

\* C34: once the console thread has read an instruction line, the main loop
\* comes to an iteration whose instruction is that trimmed line, unless the
\* user stops the program or types another instruction first.
TypedInstructionRuns ==
    \A typed \in TypedInstructions :
        (cpc = "set_idle" /\ Trim(last_line) = typed)
        ~> \/ mpc = "load" /\ instruction = typed
           \/ ~should_continue
           \/ cpc = "set_idle" /\ Trim(last_line) # typed

\* ------------------------------------------------ the locks, step by step
\* The same two loops with every `*m.lock().unwrap()` taken in two steps,
\* the lock and then the access that ends with the guard dropped; what the
\* iteration does between its locks is left open.

\* How long the temporary guard lives: that of the condition of an if or a
\* while is dropped once the condition is evaluated, that of an expression
\* statement or a let at its semicolon; never does it live into the body.
GuardLivesIntoBody(construct) ==
    IF construct \in {"if", "while"} THEN "body" ELSE "statement"

GuardLives(construct) ==
    IF construct \in {"if", "while"} THEN "condition" ELSE "statement"

\* The statements of main.rs that lock one of the three mutexes.
LockSites ==
    [l699 |-> [thread |-> "console", mutex |-> "should_continue",
               construct |-> "while"],
     l707 |-> [thread |-> "console", mutex |-> "should_continue",
               construct |-> "statement"],
     l730 |-> [thread |-> "console", mutex |-> "current_instruction",
               construct |-> "statement"],
     l731 |-> [thread |-> "console", mutex |-> "is_idle",
               construct |-> "statement"],
     l741 |-> [thread |-> "main", mutex |-> "should_continue",
               construct |-> "while"],
     l743 |-> [thread |-> "main", mutex |-> "is_idle", construct |-> "if"],
     l799 |-> [thread |-> "main", mutex |-> "current_instruction",
               construct |-> "statement"],
     l844 |-> [thread |-> "main", mutex |-> "is_idle",
               construct |-> "statement"],
     l1261 |-> [thread |-> "main", mutex |-> "current_instruction",
                construct |-> "statement"],
     l1273 |-> [thread |-> "main", mutex |-> "should_continue",
                construct |-> "if"],
     l1486 |-> [thread |-> "main", mutex |-> "is_idle",
                construct |-> "statement"]]

Pc(thread) == IF thread = "console" THEN cpc ELSE mpc

AtLockSite(thread) ==
    /\ Pc(thread) \in DOMAIN LockSites
    /\ LockSites[Pc(thread)].thread = thread

\* The guards after the access at `site`: dropped, unless the access is the
\* condition of an if or a while whose body is entered and the guard lives
\* into it.
AfterAccess(site, enters_body) ==
    IF enters_body /\ GuardLives(LockSites[site].construct) = "body"
    THEN holder
    ELSE [holder EXCEPT ![LockSites[site].mutex] = "free"]

\* The guards of `thread` after the body of an if or a while is left.
AfterBody(thread, mutex) ==
    [holder EXCEPT ![mutex] = IF @ = thread THEN "free" ELSE @]

InitLocks ==
    /\ should_continue = TRUE
    /\ current_instruction = EmptyString
    /\ is_idle = TRUE
    /\ cpc = "l699"
    /\ last_line = NoLine
    /\ mpc = "l741"
    /\ disk = NoFile
    /\ LocalsUnset
    /\ awaiting = FALSE
    /\ pending = "none"
    /\ resumed = "no"
    /\ holder = AllFree

\* Mutex::lock: the thread blocks until the mutex is free and then owns it.
L_Lock ==
    \E thread \in Threads :
        /\ AtLockSite(thread)
        /\ \A m \in Mutexes :
               holder[m] = thread => m # LockSites[Pc(thread)].mutex
        /\ holder[LockSites[Pc(thread)].mutex] = "free"
        /\ holder' = [holder EXCEPT ![LockSites[Pc(thread)].mutex] = thread]
        /\ UNCHANGED <<shared, console, mpc, disk, locals, effects, outcomes,
                       awaiting, pending, resumed>>

\* The console thread's accesses: the while condition, the stop arm and the
\* two writes of the `_` arm.
L_ConsoleAccess ==
    /\ AtLockSite("console")
    /\ holder[LockSites[cpc].mutex] = "console"
    /\ CASE cpc = "l699" ->
              /\ cpc' = IF should_continue THEN "read_703" ELSE "exited"
              /\ holder' = AfterAccess(cpc, should_continue)
              /\ UNCHANGED <<shared, last_line>>
         [] cpc = "l707" ->
              /\ should_continue' = FALSE
              /\ cpc' = "l699"
              /\ holder' = AfterAccess(cpc, FALSE)
              /\ UNCHANGED <<current_instruction, is_idle, last_line>>
         [] cpc = "l730" ->
              /\ current_instruction' = Trim(last_line)
              /\ cpc' = "l731"
              /\ holder' = AfterAccess(cpc, FALSE)
              /\ UNCHANGED <<should_continue, is_idle, last_line>>
         [] cpc = "l731" ->
              /\ is_idle' = ConsoleIdle
              /\ cpc' = "l699"
              /\ last_line' = NoLine
              /\ holder' = AfterAccess(cpc, FALSE)
              /\ UNCHANGED <<should_continue, current_instruction>>
    /\ UNCHANGED <<mpc, disk, locals, effects, outcomes, awaiting, pending,
                   resumed>>

\* reader.read_line and the match on the trimmed line, up to the arm's lock.
L_ReadLine ==
    /\ cpc = "read_703"
    /\ \E line \in ConsoleLines :
        /\ last_line' = line
        /\ cpc' = IF Trim(line) = CmdStop THEN "l707"
                  ELSE IF IsInstruction(Trim(line)) THEN "l730"
                  ELSE "l699"
    /\ holder' = IF cpc' = "l699"
                 THEN AfterBody("console", "should_continue")
                 ELSE holder
    /\ UNCHANGED <<shared, mpc, disk, locals, effects, outcomes, awaiting,
                   pending, resumed>>

\* The main thread's accesses: the while condition, the idle poll, the
\* clone of the instruction, the two idle writes, the self-instruction
\* write and the continue check of the for loop.
L_MainAccess ==
    /\ AtLockSite("main")
    /\ holder[LockSites[mpc].mutex] = "main"
    /\ CASE mpc = "l741" ->
              /\ mpc' = IF should_continue THEN "l743" ELSE "join"
              /\ holder' = AfterAccess(mpc, should_continue)
              /\ UNCHANGED <<shared, instruction>>
         [] mpc = "l743" ->
              /\ mpc' = IF is_idle THEN "sleep_745" ELSE "capture"
              /\ holder' = AfterAccess(mpc, is_idle)
              /\ UNCHANGED <<shared, instruction>>
         [] mpc = "l799" ->
              /\ instruction' = current_instruction
              /\ mpc' = "load"
              /\ holder' = AfterAccess(mpc, FALSE)
              /\ UNCHANGED shared
         [] mpc = "l844" ->
              /\ is_idle' = TRUE
              /\ mpc' = "l741"
              /\ holder' = AfterAccess(mpc, FALSE)
              /\ UNCHANGED <<should_continue, current_instruction,
                             instruction>>
         [] mpc = "l1261" ->
              /\ \E g \in GeneratedInstructions : current_instruction' = g
              /\ mpc' = "validate"
              /\ holder' = AfterAccess(mpc, FALSE)
              /\ UNCHANGED <<should_continue, is_idle, instruction>>
         [] mpc = "l1273" ->
              /\ mpc' = IF ~should_continue THEN "break_1274" ELSE "match"
              /\ holder' = AfterAccess(mpc, ~should_continue)
              /\ UNCHANGED <<shared, instruction>>
         [] mpc = "l1486" ->
              /\ is_idle' = TRUE
              /\ mpc' = "for_next"
              /\ holder' = AfterAccess(mpc, FALSE)
              /\ UNCHANGED <<should_continue, current_instruction,
                             instruction>>
    /\ UNCHANGED <<console, disk, task_state, clean_analysis, parsed_analysis,
                   clean_action, idx, action_result, effects, outcomes,
                   awaiting, pending, resumed>>

\* Where the main thread goes between its locks: the sleep of the idle
\* poll, the capture, the loaded status, the three LLM requests, the parse
\* of the plan, the arms of the match, the end of the for loop, the sleep
\* that ends the iteration.
MainFlow ==
    [sleep_745 |-> {"l741"},
     capture |-> {"l799"},
     load |-> {"l844", "llm_analysis"},
     llm_analysis |-> {"llm_plan"},
     llm_plan |-> {"llm_self", "validate"},
     llm_self |-> {"l1261"},
     validate |-> {"l741", "l1273"},
     match |-> {"l1486", "for_next"},
     for_next |-> {"l1273", "sleep_1525"},
     break_1274 |-> {"sleep_1525"},
     sleep_1525 |-> {"l741"}]

\* The steps at which the thread sleeps, waits for the LLM or for a line.
MainBlocking ==
    {"sleep_745", "llm_analysis", "llm_plan", "llm_self", "sleep_1525"}

ConsoleBlocking == {"read_703"}

L_MainStep ==
    /\ mpc \in DOMAIN MainFlow
    /\ \E next \in MainFlow[mpc] : mpc' = next
    /\ holder' = IF mpc = "sleep_745" THEN AfterBody("main", "is_idle")
                 ELSE IF mpc = "break_1274" \/ mpc' = "l741"
                 THEN AfterBody("main", "should_continue")
                 ELSE holder
    /\ UNCHANGED <<shared, console, disk, locals, effects, outcomes,
                   awaiting, pending, resumed>>

NextLocks ==
    L_Lock \/ L_ConsoleAccess \/ L_ReadLine \/ L_MainAccess \/ L_MainStep

SpecLocks == InitLocks /\ [][NextLocks]_vars

\* The mutexes a thread is inside, and the one it is blocked on.
Held(thread) == {m \in Mutexes : holder[m] = thread}

WaitsFor(thread, m) ==
    /\ AtLockSite(thread)
    /\ LockSites[Pc(thread)].mutex = m
    /\ holder[m] \notin {"free", thread}

\* C35: neither thread is ever inside more than one of the three mutexes;
\* no thread is inside one while it sleeps, waits for an LLM answer or waits
\* in read_line; a thread that waits for a mutex holds none, so that the
\* two threads never wait for each other.
OneLockAtATime ==
    /\ \A thread \in Threads : Cardinality(Held(thread)) <= 1
    /\ mpc \in MainBlocking => Held("main") = {}
    /\ cpc \in ConsoleBlocking => Held("console") = {}
    /\ \A thread \in Threads : \A m \in Mutexes :
           WaitsFor(thread, m) => Held(thread) = {}
    /\ ~ \E m1, m2 \in Mutexes :
           WaitsFor("console", m1) /\ WaitsFor("main", m2)

\* The main thread waits at its idle poll while the console thread is
\* inside the idle flag, writing false.
MainWaitsForConsole ==
    /\ WaitsFor("main", "is_idle")
    /\ cpc = "l731"
    /\ holder["is_idle"] = "console"

\* ------------------------------------------- the verdict of retry_action
\* C36: the second verification of retry_action gives the success value of
\* the first: the result that enters the adjustment has failed, and the
\* result returned after the adjustment has failed too.
RetryKeepsVerdict ==
    [][(mpc = "reverify" /\ mpc' = "check")
       => /\ ~action_result.success
          /\ action_result'.success = action_result.success]_vars

\* A window_focus whose first verification failed was adjusted with a chord
\* and verified again against the same analysis.
FocusReverified ==
    /\ mpc = "check"
    /\ CurrentAction = FocusAlt
    /\ parsed_analysis = AnalysisWith(WindowTerm)
    /\ ~action_result.success
    /\ Len(effects) >= 2
    /\ effects[Len(effects)].ev = VerifyEv
    /\ \E i \in 1..Len(effects) : effects[i].ev = KeyEv("Meta", "Press")

\* --------------------------------------------- modifiers left held down
\* How many of the appended effects are the given enigo call.
TimesAppended(ev) ==
    Cardinality({i \in 1..Len(Appended) : Appended[i].ev = ev})

\* C37: when the key_combination arm has called press_key_combination and
\* the call has returned, with Ok or with Err, every modifier it pressed has
\* been released as many times as it was pressed.
ModifiersReleased ==
    [][(/\ mpc = "dispatch" /\ mpc' \in {"verify", "check"}
        /\ ActionTag(CurrentAction) = "key_combination")
       => \A modifier \in {"Control", "Meta", "Alt", "Shift"} :
              TimesAppended(KeyEv(modifier, "Press"))
                  = TimesAppended(KeyEv(modifier, "Release"))]_vars

\* ------------------------------------------- more closers than openers
\* The text with max(0, opens - closes) closing braces and then as many
\* closing brackets appended, the differences cut off at zero.
Saturated(text) ==
    LET lex == text.lexemes
        braces == Matches(lex, {OB, StrBrace}) - Matches(lex, {CB})
        brackets == Matches(lex, {OA}) - Matches(lex, {CA})
    IN  RawText(lex \o [i \in 1..(IF braces > 0 THEN braces ELSE 0) |-> CB]
                    \o [i \in 1..(IF brackets > 0 THEN brackets ELSE 0)
                           |-> CA])

\* C38: whatever the analysis text, more closing than opening braces or
\* brackets included, the parse of the analysis ends at the action-plan
\* request with the value of the text, or the value of the text with the
\* missing closers appended (none of a kind that has more closers than
\* openers), or the canned error analysis.
RepairNeverUnderflows ==
    [][(mpc = "analysis" /\ mpc' # mpc)
       => /\ mpc' = "plan"
          /\ parsed_analysis' =
                 IF FromStr(clean_analysis') # Malformed
                 THEN FromStr(clean_analysis')
                 ELSE IF FromStr(Saturated(clean_analysis')) # Malformed
                 THEN FromStr(Saturated(clean_analysis'))
                 ELSE CannedAnalysis]_vars

\* ------------------------------------------------ the status of the task
\* The five status strings of the specification.
Statuses == {"in_progress", "completed", "paused", "failed", "task_done"}

\* The status of the file the next load_task_state would read.
SavedStatus == LoadTaskState(disk).status

\* C39: the status of the TaskState of the iteration, and of the saved one,
\* is always one of the five; within an iteration the status changes only
\* from in_progress, to paused or to task_done; the state an iteration gets
\* from load_task_state and the reset differs in status from the saved one
\* only as a new in_progress state in place of a task_done one.
StatusChangesFromInProgress ==
    /\ [](task_state.status \in Statuses /\ SavedStatus \in Statuses)
    /\ [][(mpc \notin {"load", "iter_end"} /\ mpc' \notin {"while", "panicked"}
           /\ task_state'.status # task_state.status)
          => /\ task_state.status = "in_progress"
             /\ task_state'.status \in {"paused", "task_done"}]_vars
    /\ [][(mpc = "load" /\ mpc' = "analysis"
           /\ task_state'.status # SavedStatus)
          => /\ SavedStatus = "task_done"
             /\ task_state' = TaskStateNew(instruction)]_vars
    /\ [][(mpc = "capture" /\ mpc' # mpc /\ SavedStatus' # SavedStatus)
          => /\ SavedStatus = "task_done"
             /\ LoadTaskState(disk') = TaskStateNew(EmptyString)]_vars

\* The iteration after a task_done one, its state reset to a new one on the
\* instruction that came in between.
ResetOutOfTaskDone ==
    /\ mpc = "analysis"
    /\ resumed = "loaded"
    /\ instruction # EmptyString
    /\ task_state = TaskStateNew(instruction)
    /\ SavedStatus = "in_progress"

\* -------------------------------------------- the state between iterations
\* C40: an iteration that follows one that saved its TaskState gets from
\* load_task_state, in its own iteration directory, the TaskState that was
\* last saved: the same status, attempts, feedback, memory and
\* action_results.
LoadReturnsLastSaved ==
    [][(mpc = "capture" /\ mpc' = "read_instruction" /\ disk # NoFile)
       => LoadTaskState(disk') = TaskStateFromJson(disk)]_vars

====
